---- MODULE Spec2Model ----
(***************************************************************************)
(* SafeLoop Care: the account-scoped data gateway (userService) over the   *)
(* backend tables, and the screens that call it.                           *)
(*                                                                         *)
(* Every backend request (one supabase query or rpc) is one atomic step;   *)
(* a gateway method that awaits several requests is a sequence of steps,   *)
(* so calls of different caregivers interleave between requests.           *)
(***************************************************************************)
EXTENDS Integers, Sequences, FiniteSets, Bags, TLC

(***************************************************************************)
(* Bounds                                                                  *)
(***************************************************************************)
MaxWearers == 2
MaxDevices == 2
MaxHelpRequests == 1
MaxAssignments == 1
MaxClock == 3
MaxInvitations == 2
MaxLoads == 1
MaxTicks == 2
MaxMounts == 2
MaxInFlight == 2
MaxHistory == 3

\* The life of an invitation (7 days), in ticks of the clock.
InvitationTtl == 1

(***************************************************************************)
(* Values                                                                  *)
(***************************************************************************)
NULL == 0
NoAccount == "none"
Users == {"u1", "u2", "u3"}
Codes == {"1234567", "7654321"}
\* The texts a caregiver types: nothing, or a note of their own.
NotesOf(u) == IF u = "u1" THEN {"", "n1"} ELSE {"", "n2"}
WearerIds == 1..MaxWearers
DeviceIds == 1..MaxDevices
HelpRequestIds == 1..MaxHelpRequests
AssignmentIds == 1..MaxAssignments

\* users.safeloop_account_id of the three profiles: two caregivers of one
\* account and a profile that is not associated with an account.
safeloop_account_id(u) ==
    CASE u = "u1" -> "a1"
      [] u = "u2" -> "a1"
      [] OTHER    -> NoAccount

HasAccount(u) == safeloop_account_id(u) # NoAccount

\* users.user_type: the caregiver who created the account is its admin.
user_type(u) == IF u = "u1" THEN "caregiver_admin" ELSE "caregiver"

VARIABLES
    wearers,                      \* table wearers: id -> row
    devices,                      \* table devices: id -> row
    caregiver_wearer_assignments, \* table: id -> row
    help_requests,                \* table help_requests: id -> row
    wearer_settings,              \* table wearer_settings: set of wearer ids
    nextWearerId, nextDeviceId, nextHelpRequestId, nextAssignmentId,
    call,                         \* createWearer call of each caregiver
    lastDelete,                   \* outcome of the latest deletion request
    now,                          \* backend clock, for the timestamps
    activeRequests,               \* HomeScreen: Active list of each caregiver
    detail,                       \* HelpRequestDetailScreen of each caregiver
    raced,                        \* help requests closed again after a close
    wearerDetails,                \* WearerDetailsScreen of each caregiver
    users,                        \* table users: auth user id -> profile row
    caregiver_invitations,        \* table caregiver_invitations: id -> row
    nextInvitationId,
    auth,                         \* AuthProvider state of each identity's app
    loads,                        \* loadUserProfile calls in flight
    caregiversScreen,             \* CaregiversScreen / InviteCaregiverScreen
    mounted,                      \* the mounted instance of each screen, or 0
    mountCount,                   \* mounts of each screen so far
    channels,                     \* realtime channels subscribed
    events,                       \* change events not yet delivered, per channel
    fetches,                      \* re-fetches in flight (a bag)
    resolvedRequests,             \* HomeScreen: History list of each caregiver
    wearersList,                  \* WearersScreen: list of each caregiver
    registerForm,                 \* RegisterWearerScreen: formData and outcome
    detailAlert,                  \* HelpRequestDetailScreen: alert of the load
    history                       \* latest result of getResolvedHelpRequests

dbvars == <<wearers, devices, caregiver_wearer_assignments, help_requests,
            wearer_settings>>
idvars == <<nextWearerId, nextDeviceId, nextHelpRequestId, nextAssignmentId>>
helpvars == <<now, activeRequests, detail, raced>>
\* the screens of caregiver management
authvars == <<users, caregiver_invitations, nextInvitationId, auth, loads>>
\* realtime subscriptions and the lists they refresh
realtimevars == <<mounted, mountCount, channels, events, fetches,
                  resolvedRequests, wearersList>>
\* the forms
formvars == <<registerForm, detailAlert, history>>
screenvars == <<wearerDetails, authvars, caregiversScreen, realtimevars,
                formvars>>
vars == <<wearers, devices, caregiver_wearer_assignments, help_requests,
          wearer_settings, nextWearerId, nextDeviceId, nextHelpRequestId,
          nextAssignmentId, call, lastDelete, now, activeRequests, detail,
          raced, wearerDetails, users, caregiver_invitations,
          nextInvitationId, auth, loads, caregiversScreen, mounted,
          mountCount, channels, events, fetches, resolvedRequests,
          wearersList, registerForm, detailAlert, history>>

Idle == [pc |-> "idle", code |-> "", existingDevice |-> NULL, wearer |-> NULL,
         err |-> "", result |-> {}, boundAtCall |-> FALSE,
         cleanupApplied |-> FALSE]

NoDelete == [op |-> "none", ok |-> FALSE, deps |-> FALSE]

\* No help request shown on the detail screen.
NoDetail == [id |-> NULL, event_status |-> "", notes |-> ""]

\* WearerDetailsScreen that is not open; alert is the error shown last.
NoWearerDetails ==
    [wearerId |-> NULL, loading |-> FALSE, gotAssigned |-> FALSE,
     gotAvailable |-> FALSE, assigned |-> {}, available |-> {},
     loaded |-> FALSE, assignedCaregivers |-> {}, availableCaregivers |-> {},
     alert |-> ""]

\* display_name values: text as a sequence of characters
DisplayNames == {<<>>, <<" ">>, <<"A">>, <<" ", "A", " ">>}

\* No profile (userProfile = null)
NoProfile ==
    [id |-> "", safeloop_account_id |-> NoAccount, user_type |-> "",
     display_name |-> <<>>]

\* No invitation (invitationInfo = null)
NoInvitation ==
    [invitation_id |-> NULL, safeloop_account_id |-> NoAccount,
     invited_by |-> "", user_type |-> ""]

\* AuthProvider before a session is known
SignedOut ==
    [session |-> FALSE, signedInAt |-> 0, userProfile |-> NoProfile,
     invitationInfo |-> NoInvitation, profileLoading |-> FALSE,
     needsProfileSetup |-> FALSE, issued |-> ""]

\* CaregiversScreen before its lists are loaded
NoCaregiversScreen == [loaded |-> FALSE, invitations |-> {}, alert |-> ""]

\* No lookup of loadUserProfile is in flight; the getSession() promise of the
\* mount effect of AuthProvider has not been answered yet.
NoLoads == [getUserProfile |-> 0, checkInvitation |-> 0, getSession |-> TRUE]

\* The profile rows of the caregivers of account a1; u3 has not signed up.
ProfileRow(u, name) ==
    [safeloop_account_id |-> safeloop_account_id(u),
     user_type |-> user_type(u), display_name |-> name]

\* No session on any device, no invitation; the display name of caregiver
\* u2 is one of names.
InitAuthWith(names) ==
    /\ \E name \in names :
          users = [u \in {"u1", "u2"} |->
                     ProfileRow(u, IF u = "u1" THEN <<"A">> ELSE name)]
    /\ caregiver_invitations = <<>>
    /\ nextInvitationId = 1
    /\ auth = [u \in Users |-> SignedOut]
    /\ loads = [u \in Users |-> NoLoads]
    /\ caregiversScreen = [u \in Users |-> NoCaregiversScreen]

\* The screens that open realtime subscriptions
Screens == {"HomeScreen", "WearersScreen"}

\* RegisterWearerScreen as it opens: empty formData, nothing shown, no call
EmptyForm ==
    [name |-> <<>>, date_of_birth |-> <<>>, seven_digit_code |-> <<>>,
     alert |-> "", called |-> FALSE]

\* No call of getResolvedHelpRequests yet
NoHistory == [limit |-> 0, rows |-> <<>>]

InitViews ==
    /\ now = 1
    /\ activeRequests = [u \in Users |-> {}]
    /\ detail = [u \in Users |-> NoDetail]
    /\ raced = {}
    /\ wearerDetails = [u \in Users |-> NoWearerDetails]
    /\ mounted = [s \in Screens |-> 0]
    /\ mountCount = [s \in Screens |-> 0]
    /\ channels = {}
    /\ events = <<>>
    /\ fetches = EmptyBag
    /\ resolvedRequests = [u \in Users |-> {}]
    /\ wearersList = [u \in Users |-> {}]
    /\ registerForm = EmptyForm
    /\ detailAlert = [u \in Users |-> ""]
    /\ history = NoHistory

Init ==
    /\ InitViews
    /\ wearers = <<>>
    /\ devices = <<>>
    /\ caregiver_wearer_assignments = <<>>
    /\ help_requests = <<>>
    /\ wearer_settings = {}
    /\ nextWearerId = 1
    /\ nextDeviceId = 1
    /\ nextHelpRequestId = 1
    /\ nextAssignmentId = 1
    /\ call = [u \in Users |-> Idle]
    /\ lastDelete = NoDelete
    /\ InitAuthWith({<<"A">>})

(***************************************************************************)
(* Table helpers                                                           *)
(***************************************************************************)
Without(f, S) == [x \in (DOMAIN f) \ S |-> f[x]]

Put(f, k, v) == [x \in (DOMAIN f) \cup {k} |-> IF x = k THEN v ELSE f[x]]

DevicesOf(w) == {d \in DOMAIN devices : devices[d].wearer_id = w}

\* A code is bound when some device row carrying it references a wearer.
CodeBound(code) ==
    \E d \in DOMAIN devices :
        devices[d].seven_digit_code = code /\ devices[d].wearer_id # NULL

\* Foreign keys of the dependent tables: a row can reference only a wearer
\* that exists.
WearerExists(w) == w \in DOMAIN wearers

\* devices.seven_digit_code identifies one device: a second row with the
\* same code is rejected by the backend.
CodeTaken(code) == \E d \in DOMAIN devices : devices[d].seven_digit_code = code

(***************************************************************************)
(* DELETE FROM wearers WHERE id = w, as issued by deleteWearer and by the  *)
(* clean-up of createWearer: the rows that reference the wearer go with it *)
(***************************************************************************)
CascadeDevices(w) == Without(devices, DevicesOf(w))

CascadeAssignments(w) ==
    Without(caregiver_wearer_assignments,
            {a \in DOMAIN caregiver_wearer_assignments :
                caregiver_wearer_assignments[a].wearer_id = w})

CascadeHelpRequests(w) ==
    Without(help_requests,
            {h \in DOMAIN help_requests : help_requests[h].wearer_id = w})

\* The assignments, help requests and settings of a deleted wearer.
DependentsCascade(w) ==
    /\ caregiver_wearer_assignments' = CascadeAssignments(w)
    /\ help_requests' = CascadeHelpRequests(w)
    /\ wearer_settings' = wearer_settings \ {w}

DeleteFromWearers(w) ==
    /\ wearers' = Without(wearers, {w})
    /\ devices' = CascadeDevices(w)
    /\ DependentsCascade(w)

(***************************************************************************)
(* userService.createWearer                                                *)
(***************************************************************************)
\* .eq('seven_digit_code', code).single(): the row when exactly one row
\* matches; no row or several rows give PGRST116 and no data.
SingleDeviceByCode(code) ==
    LET rows == {d \in DOMAIN devices : devices[d].seven_digit_code = code}
    IN  IF Cardinality(rows) = 1 THEN CHOOSE d \in rows : TRUE ELSE NULL

AlreadyRegistered_Unchecked(existingDevice) == FALSE

\* existingDevice && existingDevice.wearer_id
AlreadyRegistered(existingDevice) ==
    existingDevice # NULL /\ devices[existingDevice].wearer_id # NULL

Thrown(u, e) == [call[u] EXCEPT !.pc = "thrown", !.err = e]

\* Account check and the look-up of the device by its code.
CreateWearerLookup(u, code, ok) ==
    /\ call[u].pc = "idle"
    /\ UNCHANGED <<dbvars, idvars, lastDelete>>
    /\ LET c0 == [Idle EXCEPT !.code = code, !.boundAtCall = CodeBound(code)]
           existingDevice == SingleDeviceByCode(code)
       IN  call' = [call EXCEPT ![u] =
             IF safeloop_account_id(u) = NoAccount
               THEN [c0 EXCEPT !.pc = "thrown", !.err = "no_account"]
             ELSE IF ~ok
               THEN [c0 EXCEPT !.pc = "thrown", !.err = "lookup_error"]
             ELSE IF AlreadyRegistered(existingDevice)
               THEN [c0 EXCEPT !.pc = "thrown", !.err = "conflict"]
             ELSE [c0 EXCEPT !.pc = "insertWearer",
                             !.existingDevice = existingDevice]]

\* Insert of the wearer row, scoped to the caller's account.
CreateWearerInsert(u, ok) ==
    /\ call[u].pc = "insertWearer"
    /\ nextWearerId <= MaxWearers
    /\ UNCHANGED <<devices, caregiver_wearer_assignments, help_requests,
                   wearer_settings, nextDeviceId, nextHelpRequestId,
                   nextAssignmentId, lastDelete>>
    /\ IF ok
         THEN /\ wearers' = Put(wearers, nextWearerId,
                    [safeloop_account_id |-> safeloop_account_id(u)])
              /\ nextWearerId' = nextWearerId + 1
              /\ call' = [call EXCEPT ![u].pc = "deviceStep",
                                      ![u].wearer = nextWearerId]
         ELSE /\ UNCHANGED <<wearers, nextWearerId>>
              /\ call' = [call EXCEPT ![u] = Thrown(u, "wearer_error")]

\* update({ wearer_id }).eq('id', existingDevice.id): rows that match are
\* rebound, whatever wearer they referenced before.
BindDevice(d, w) ==
    IF d \in DOMAIN devices
      THEN [devices EXCEPT ![d].wearer_id = w]
      ELSE devices

\* insert of a device row for a code the backend has not seen yet
NewDevice(code, w) ==
    [seven_digit_code |-> code, wearer_id |-> w, is_verified |-> FALSE]

\* The device step: bind the unbound device found by the look-up, or insert
\* a new device; an error sends the call to its clean-up.
CreateWearerDevice(u, ok) ==
    LET c == call[u]
        bindErr == ~ok \/ (c.existingDevice \in DOMAIN devices
                            /\ ~WearerExists(c.wearer))
        insertErr == ~ok \/ CodeTaken(c.code) \/ ~WearerExists(c.wearer)
    IN
    /\ c.pc = "deviceStep"
    /\ UNCHANGED <<wearers, caregiver_wearer_assignments, help_requests,
                   wearer_settings, nextWearerId, nextHelpRequestId,
                   nextAssignmentId, lastDelete>>
    /\ IF c.existingDevice # NULL
         THEN /\ devices' = IF bindErr THEN devices
                            ELSE BindDevice(c.existingDevice, c.wearer)
              /\ UNCHANGED nextDeviceId
              /\ call' = [call EXCEPT
                    ![u].pc = IF bindErr THEN "cleanup" ELSE "hydrate",
                    ![u].err = IF bindErr THEN "device_error" ELSE ""]
         ELSE /\ insertErr \/ nextDeviceId <= MaxDevices
              /\ devices' = IF insertErr THEN devices
                            ELSE Put(devices, nextDeviceId,
                                     NewDevice(c.code, c.wearer))
              /\ nextDeviceId' = IF insertErr THEN nextDeviceId
                                 ELSE nextDeviceId + 1
              /\ call' = [call EXCEPT
                    ![u].pc = IF insertErr THEN "cleanup" ELSE "hydrate",
                    ![u].err = IF insertErr THEN "device_error" ELSE ""]

CleanupTarget_None(u) == NULL

\* The wearer that the clean-up deletes.
CleanupTarget(u) == call[u].wearer

\* Clean-up after a failed device step: delete the wearer, then rethrow the
\* device error.  The result of the delete is not inspected.
CreateWearerCleanup(u, ok) ==
    /\ call[u].pc = "cleanup"
    /\ UNCHANGED <<idvars, lastDelete>>
    /\ IF ok THEN DeleteFromWearers(CleanupTarget(u)) ELSE UNCHANGED dbvars
    /\ call' = [call EXCEPT ![u].pc = "thrown", ![u].cleanupApplied = ok]

\* getWearerById: the wearer with its devices, an error when no row matches.
HydratedDevices(w) ==
    {[id |-> d, seven_digit_code |-> devices[d].seven_digit_code,
      is_verified |-> devices[d].is_verified] : d \in DevicesOf(w)}

CreateWearerHydrate(u, ok) ==
    /\ call[u].pc = "hydrate"
    /\ UNCHANGED <<dbvars, idvars, lastDelete>>
    /\ call' = [call EXCEPT ![u] =
          IF ok /\ WearerExists(call[u].wearer)
            THEN [call[u] EXCEPT !.pc = "returned",
                                 !.result = HydratedDevices(call[u].wearer)]
            ELSE Thrown(u, "read_error")]

\* RegisterWearerScreen.handleSave shows the outcome; the form can be
\* submitted again.
CreateWearerDone(u) ==
    /\ call[u].pc \in {"thrown", "returned"}
    /\ call' = [call EXCEPT ![u] = Idle]
    /\ UNCHANGED <<dbvars, idvars, lastDelete>>

(***************************************************************************)
(* Wearer deletion                                                         *)
(***************************************************************************)
HasDependents(w) ==
    \/ DevicesOf(w) # {}
    \/ \E a \in DOMAIN caregiver_wearer_assignments :
          caregiver_wearer_assignments[a].wearer_id = w
    \/ \E h \in DOMAIN help_requests : help_requests[h].wearer_id = w
    \/ w \in wearer_settings

\* userService.deleteWearer, called by WearersScreen.handleDeleteWearer for
\* a wearer of the list of the caller's account.
DeleteWearer(u, w, ok) ==
    /\ w \in DOMAIN wearers
    /\ wearers[w].safeloop_account_id = safeloop_account_id(u)
    /\ IF ok THEN DeleteFromWearers(w) ELSE UNCHANGED dbvars
    /\ UNCHANGED <<idvars, call>>

\* UPDATE devices SET wearer_id = NULL WHERE wearer_id = p_wearer_id
UnassignDevices(w) ==
    [d \in DOMAIN devices |->
        IF devices[d].wearer_id = w
          THEN [devices[d] EXCEPT !.wearer_id = NULL]
          ELSE devices[d]]

DeleteWearerSafelyBody_KeepsHelpRequests(w) ==
    /\ devices' = UnassignDevices(w)
    /\ caregiver_wearer_assignments' = CascadeAssignments(w)
    /\ UNCHANGED help_requests
    /\ wearer_settings' = wearer_settings \ {w}
    /\ wearers' = Without(wearers, {w})

\* The body of delete_wearer_safely after the existence check; the function
\* runs in one transaction.
DeleteWearerSafelyBody(w) ==
    /\ devices' = UnassignDevices(w)
    /\ caregiver_wearer_assignments' = CascadeAssignments(w)
    /\ help_requests' = CascadeHelpRequests(w)
    /\ wearer_settings' = wearer_settings \ {w}
    /\ wearers' = Without(wearers, {w})

\* rpc delete_wearer_safely(p_wearer_id): FALSE when the wearer does not
\* exist; an error rolls the whole function back.
DeleteWearerSafely(w, ok) ==
    /\ IF ok /\ WearerExists(w)
         THEN DeleteWearerSafelyBody(w)
         ELSE UNCHANGED dbvars
    /\ UNCHANGED <<idvars, call>>

(***************************************************************************)
(* Producers outside the application: the watch and the alert server       *)
(***************************************************************************)
\* The watch contacts the server before its code was registered: a device
\* row without a wearer.
RegisterDevice(code) ==
    /\ ~CodeTaken(code)
    /\ nextDeviceId <= MaxDevices
    /\ devices' = Put(devices, nextDeviceId, NewDevice(code, NULL))
    /\ nextDeviceId' = nextDeviceId + 1
    /\ UNCHANGED <<wearers, caregiver_wearer_assignments, help_requests,
                   wearer_settings, nextWearerId, nextHelpRequestId,
                   nextAssignmentId, call, lastDelete>>

NewHelpRequest(w) ==
    [wearer_id |-> w, event_status |-> "active", notes |-> "",
     responded_by |-> "", responded_at |-> 0, resolved_at |-> 0]

\* An alert is raised for a wearer.
CreateHelpRequest(w) ==
    /\ WearerExists(w)
    /\ nextHelpRequestId <= MaxHelpRequests
    /\ help_requests' = Put(help_requests, nextHelpRequestId, NewHelpRequest(w))
    /\ nextHelpRequestId' = nextHelpRequestId + 1
    /\ UNCHANGED <<wearers, devices, caregiver_wearer_assignments,
                   wearer_settings, nextWearerId, nextDeviceId,
                   nextAssignmentId, call, lastDelete>>

\* The settings row of a wearer.
CreateWearerSettings(w) ==
    /\ WearerExists(w)
    /\ w \notin wearer_settings
    /\ wearer_settings' = wearer_settings \cup {w}
    /\ UNCHANGED <<wearers, devices, caregiver_wearer_assignments,
                   help_requests, idvars, call, lastDelete>>

\* userService.assignCaregiverToWearer: rpc assign_caregiver_to_wearer
AssignCaregiverToWearer(c, w) ==
    /\ WearerExists(w)
    /\ nextAssignmentId <= MaxAssignments
    /\ caregiver_wearer_assignments' =
          Put(caregiver_wearer_assignments, nextAssignmentId,
              [caregiver_user_id |-> c, wearer_id |-> w])
    /\ nextAssignmentId' = nextAssignmentId + 1
    /\ UNCHANGED <<wearers, devices, help_requests, wearer_settings,
                   nextWearerId, nextDeviceId, nextHelpRequestId, call,
                   lastDelete>>

(***************************************************************************)
(* Help requests: the gateway                                              *)
(***************************************************************************)
Terminal == {"resolved", "false_alarm"}

\* The request is of a wearer of the account (wearer:wearers!inner join
\* with the filter on wearer.safeloop_account_id).
InAccount(h, account) ==
    /\ help_requests[h].wearer_id \in DOMAIN wearers
    /\ wearers[help_requests[h].wearer_id].safeloop_account_id = account

\* userService.getActiveHelpRequests
getActiveHelpRequests(account) ==
    {h \in DOMAIN help_requests :
        help_requests[h].event_status = "active" /\ InAccount(h, account)}

NotesWritten_Always(notes) == TRUE

\* if (notes): an empty note is not part of the update
NotesWritten(notes) == notes # ""

Updates_ClosingSetsResponder(row, status, userId, notes) ==
    LET r1 == [row EXCEPT !.event_status = status,
                          !.responded_by = userId, !.responded_at = now]
        r2 == IF status \in Terminal
                THEN [r1 EXCEPT !.resolved_at = now]
                ELSE r1
    IN  IF NotesWritten(notes) THEN [r2 EXCEPT !.notes = notes] ELSE r2

\* The updates object of updateHelpRequestStatus, applied to a row.
Updates(row, status, userId, notes) ==
    LET r1 == [row EXCEPT !.event_status = status]
        r2 == IF status = "responded_to"
                THEN [r1 EXCEPT !.responded_by = userId, !.responded_at = now]
              ELSE IF status \in Terminal
                THEN [r1 EXCEPT !.resolved_at = now]
              ELSE r1
    IN  IF NotesWritten(notes) THEN [r2 EXCEPT !.notes = notes] ELSE r2

updateHelpRequestStatus_Upsert(h, status, userId, notes) ==
    /\ now <= MaxClock
    /\ now' = now + 1
    /\ help_requests' =
          IF h \in DOMAIN help_requests
            THEN [help_requests EXCEPT ![h] = Updates(@, status, userId, notes)]
            ELSE Put(help_requests, h,
                     Updates(NewHelpRequest(1), status, userId, notes))
    /\ UNCHANGED raced
    /\ UNCHANGED <<wearers, devices, caregiver_wearer_assignments,
                   wearer_settings, idvars, call, lastDelete>>

\* userService.updateHelpRequestStatus: one UPDATE of the rows with the id.
updateHelpRequestStatus(h, status, userId, notes) ==
    /\ now <= MaxClock
    /\ now' = now + 1
    /\ help_requests' =
          IF h \in DOMAIN help_requests
            THEN [help_requests EXCEPT ![h] = Updates(@, status, userId, notes)]
            ELSE help_requests
    /\ raced' = IF /\ h \in DOMAIN help_requests
                    /\ help_requests[h].event_status \in Terminal
                    /\ status \in Terminal
                    /\ help_requests[h].notes # notes
                 THEN raced \cup {h} ELSE raced
    /\ UNCHANGED <<wearers, devices, caregiver_wearer_assignments,
                   wearer_settings, idvars, call, lastDelete>>

(***************************************************************************)
(* Help requests: the dashboard (HomeScreen)                               *)
(***************************************************************************)
\* loadHelpRequests, on mount and on every change event of help_requests
LoadHelpRequests(u) ==
    /\ HasAccount(u)
    /\ activeRequests' = [activeRequests EXCEPT ![u] =
          getActiveHelpRequests(safeloop_account_id(u))]
    /\ activeRequests'[u] # activeRequests[u]
    /\ UNCHANGED <<dbvars, idvars, call, lastDelete, now, detail, raced>>

\* The Active tab renders a Resolve Alert button for each listed request;
\* the dashboard is used while no detail screen is on top of it.
CanResolveFromDashboard(u, h) ==
    /\ detail[u].id = NULL
    /\ h \in activeRequests[u]

\* handleResolveAlert: Mark as Resolved / Mark as False Alarm, without notes
HandleResolveAlert(u, h, status) ==
    /\ CanResolveFromDashboard(u, h)
    /\ updateHelpRequestStatus(h, status, u, "")
    /\ UNCHANGED <<activeRequests, detail>>

(***************************************************************************)
(* Help requests: the detail screen (HelpRequestDetailScreen)              *)
(***************************************************************************)
\* loadHelpRequest on the table tbl: the request and its notes, or "not
\* found" and back
Loaded(tbl, h) ==
    IF h \in DOMAIN tbl
      THEN [id |-> h, event_status |-> tbl[h].event_status,
            notes |-> tbl[h].notes]
      ELSE NoDetail

\* A tap on the notification of a help request opens its detail screen.
OpenDetail(u, h) ==
    /\ detail[u].id = NULL
    /\ h \in DOMAIN help_requests
    /\ detail' = [detail EXCEPT ![u] = Loaded(help_requests, h)]
    /\ UNCHANGED <<dbvars, idvars, call, lastDelete, now, activeRequests,
                   raced>>

\* The caregiver edits the notes field.
SetNotes(u, n) ==
    /\ detail[u].id # NULL
    /\ detail[u].notes # n
    /\ detail' = [detail EXCEPT ![u].notes = n]
    /\ UNCHANGED <<dbvars, idvars, call, lastDelete, now, activeRequests,
                   raced>>

SaveNotesStatus_Active == "active"

\* The status that Save Notes writes.
SaveNotesStatus == "responded_to"

\* handleSaveNotes: the Save Notes button is rendered for every request;
\* the request is loaded again after the update.
HandleSaveNotes(u) ==
    /\ detail[u].id # NULL
    /\ updateHelpRequestStatus(detail[u].id, SaveNotesStatus, u,
                               detail[u].notes)
    /\ detail' = [detail EXCEPT ![u] = Loaded(help_requests', detail[u].id)]
    /\ UNCHANGED activeRequests

\* The Resolve Alert button is rendered when the loaded request is active.
CanResolveFromDetail(u) ==
    /\ detail[u].id # NULL
    /\ detail[u].event_status = "active"

\* handleResolve: update with the notes of the field, then back
HandleResolve(u, status) ==
    /\ CanResolveFromDetail(u)
    /\ updateHelpRequestStatus(detail[u].id, status, u, detail[u].notes)
    /\ detail' = [detail EXCEPT ![u] = NoDetail]
    /\ UNCHANGED activeRequests

\* Back button of the detail screen
CloseDetail(u) ==
    /\ detail[u].id # NULL
    /\ detail' = [detail EXCEPT ![u] = NoDetail]
    /\ UNCHANGED <<dbvars, idvars, call, lastDelete, now, activeRequests,
                   raced>>

(***************************************************************************)
(* Caregiver assignments: the gateway and WearerDetailsScreen              *)
(***************************************************************************)
isAdmin_Everyone(u) == TRUE

\* const isAdmin = userProfile?.user_type === 'caregiver_admin'
isAdmin(u) == user_type(u) = "caregiver_admin"

\* from('users').eq('safeloop_account_id', ...): the profiles of an account
AccountProfiles(account) == {c \in Users : safeloop_account_id(c) = account}

AssignmentsOf(w) ==
    {a \in DOMAIN caregiver_wearer_assignments :
        caregiver_wearer_assignments[a].wearer_id = w}

\* userService.getAssignedCaregivers: one entry for each assignment of the
\* wearer, joined with the profile of its caregiver.
getAssignedCaregivers(w) ==
    {[assignment_id |-> a,
      id |-> caregiver_wearer_assignments[a].caregiver_user_id] :
        a \in AssignmentsOf(w)}

\* userService.getAvailableCaregivers: the profiles of the account that no
\* assignment of the wearer names.
getAvailableCaregivers(u, w) ==
    AccountProfiles(safeloop_account_id(u)) \
        {caregiver_wearer_assignments[a].caregiver_user_id :
            a \in AssignmentsOf(w)}

\* loadWearerDetails starts: Promise.all issues the reads together.
StartLoad(wd) ==
    [wd EXCEPT !.loading = TRUE, !.gotAssigned = FALSE,
               !.gotAvailable = FALSE]

\* useFocusEffect: the screen of a wearer of the caller's list gets focus.
FocusWearerDetails(u, w) ==
    /\ HasAccount(u)
    /\ wearerDetails[u].wearerId = NULL
    /\ WearerExists(w)
    /\ wearers[w].safeloop_account_id = safeloop_account_id(u)
    /\ wearerDetails' = [wearerDetails EXCEPT ![u] =
          StartLoad([NoWearerDetails EXCEPT !.wearerId = w])]
    /\ UNCHANGED <<dbvars, idvars, call, lastDelete, helpvars, authvars,
                   caregiversScreen>>

\* The read of the assignments by getAssignedCaregivers is answered.
ReadAssigned(u) ==
    /\ wearerDetails[u].loading
    /\ ~wearerDetails[u].gotAssigned
    /\ wearerDetails' = [wearerDetails EXCEPT
          ![u].gotAssigned = TRUE,
          ![u].assigned = getAssignedCaregivers(wearerDetails[u].wearerId)]
    /\ UNCHANGED <<dbvars, idvars, call, lastDelete, helpvars, authvars,
                   caregiversScreen>>

\* The read of the assignments by getAvailableCaregivers is answered.
ReadAvailable(u) ==
    /\ wearerDetails[u].loading
    /\ ~wearerDetails[u].gotAvailable
    /\ wearerDetails' = [wearerDetails EXCEPT
          ![u].gotAvailable = TRUE,
          ![u].available =
              getAvailableCaregivers(u, wearerDetails[u].wearerId)]
    /\ UNCHANGED <<dbvars, idvars, call, lastDelete, helpvars, authvars,
                   caregiversScreen>>

\* loadWearerDetails ends: all reads are answered and the lists are set.
LoadWearerDetailsDone(u) ==
    /\ wearerDetails[u].loading
    /\ wearerDetails[u].gotAssigned
    /\ wearerDetails[u].gotAvailable
    /\ wearerDetails' = [wearerDetails EXCEPT
          ![u].loading = FALSE,
          ![u].loaded = TRUE,
          ![u].assignedCaregivers = wearerDetails[u].assigned,
          ![u].availableCaregivers = wearerDetails[u].available]
    /\ UNCHANGED <<dbvars, idvars, call, lastDelete, helpvars, authvars,
                   caregiversScreen>>

\* handleRefresh: pull to refresh
HandleRefresh(u) ==
    /\ wearerDetails[u].wearerId # NULL
    /\ ~wearerDetails[u].loading
    /\ wearerDetails' = [wearerDetails EXCEPT ![u] = StartLoad(@)]
    /\ UNCHANGED <<dbvars, idvars, call, lastDelete, helpvars, authvars,
                   caregiversScreen>>

\* handleAssignCaregiver for an entry of the Available list: the role check,
\* then the rpc and a reload.
HandleAssignCaregiver(u, c) ==
    /\ wearerDetails[u].loaded
    /\ ~wearerDetails[u].loading
    /\ c \in wearerDetails[u].availableCaregivers
    /\ IF ~isAdmin(u)
         THEN /\ wearerDetails' = [wearerDetails EXCEPT
                    ![u].alert = "Only account admins can assign caregivers."]
              /\ UNCHANGED <<dbvars, idvars, call, lastDelete>>
         ELSE /\ AssignCaregiverToWearer(c, wearerDetails[u].wearerId)
              /\ wearerDetails' = [wearerDetails EXCEPT ![u] = StartLoad(@)]
    /\ UNCHANGED <<helpvars, authvars, caregiversScreen>>

\* userService.removeCaregiverFromWearer: delete().eq('id', assignmentId)
removeCaregiverFromWearer(a) ==
    /\ caregiver_wearer_assignments' =
          Without(caregiver_wearer_assignments, {a})
    /\ UNCHANGED <<wearers, devices, help_requests, wearer_settings, idvars,
                   call, lastDelete>>

\* handleRemoveCaregiver for an entry of the Assigned list
HandleRemoveCaregiver(u, a) ==
    /\ wearerDetails[u].loaded
    /\ ~wearerDetails[u].loading
    /\ \E e \in wearerDetails[u].assignedCaregivers : e.assignment_id = a
    /\ IF ~isAdmin(u)
         THEN /\ wearerDetails' = [wearerDetails EXCEPT
                    ![u].alert = "Only account admins can remove caregivers."]
              /\ UNCHANGED <<dbvars, idvars, call, lastDelete>>
         ELSE /\ removeCaregiverFromWearer(a)
              /\ wearerDetails' = [wearerDetails EXCEPT ![u] = StartLoad(@)]
    /\ UNCHANGED <<helpvars, authvars, caregiversScreen>>

\* Back button of WearerDetailsScreen
BackFromWearerDetails(u) ==
    /\ wearerDetails[u].wearerId # NULL
    /\ ~wearerDetails[u].loading
    /\ wearerDetails' = [wearerDetails EXCEPT ![u] = NoWearerDetails]
    /\ UNCHANGED <<dbvars, idvars, call, lastDelete, helpvars, authvars,
                   caregiversScreen>>

(***************************************************************************)
(* The profile resolver: userService profile methods and AuthProvider      *)
(***************************************************************************)
RECURSIVE TrimStart(_)
TrimStart(s) ==
    IF s # <<>> /\ Head(s) = " " THEN TrimStart(Tail(s)) ELSE s

RECURSIVE TrimEnd(_)
TrimEnd(s) ==
    IF s # <<>> /\ s[Len(s)] = " "
      THEN TrimEnd(SubSeq(s, 1, Len(s) - 1))
      ELSE s

\* String.prototype.trim
trim(s) == TrimEnd(TrimStart(s))

hasCompletedProfile_Untrimmed(userProfile) == Len(userProfile.display_name) > 0

\* userService.hasCompletedProfile
hasCompletedProfile(userProfile) ==
    /\ Len(userProfile.display_name) > 0
    /\ Len(trim(userProfile.display_name)) > 0

\* userService.getUserProfile: the row of the identity, or null when no row
\* matches.
getUserProfile(i) ==
    IF i \in DOMAIN users
      THEN [id |-> i, safeloop_account_id |-> users[i].safeloop_account_id,
            user_type |-> users[i].user_type,
            display_name |-> users[i].display_name]
      ELSE NoProfile

NotExpired_Always(row) == TRUE

\* .gt('expires_at', new Date().toISOString())
NotExpired(row) == row.expires_at > now

\* The rows that the query of checkInvitation matches.
MatchingInvitations(email) ==
    {k \in DOMAIN caregiver_invitations :
        /\ caregiver_invitations[k].email = email
        /\ caregiver_invitations[k].status = "pending"
        /\ NotExpired(caregiver_invitations[k])}

\* userService.checkInvitation: .single() gives the row when exactly one
\* row matches; no row or several rows give PGRST116, which is answered
\* with null.
checkInvitation(email) ==
    LET rows == MatchingInvitations(email)
    IN  IF Cardinality(rows) = 1
          THEN LET k == CHOOSE x \in rows : TRUE
               IN  [invitation_id |-> k,
                    safeloop_account_id |->
                        caregiver_invitations[k].safeloop_account_id,
                    invited_by |-> caregiver_invitations[k].invited_by,
                    user_type |-> "caregiver"]
          ELSE NoInvitation

LoadsInFlight(i) == loads[i].getUserProfile + loads[i].checkInvitation

UnchangedByAuth ==
    UNCHANGED <<dbvars, idvars, call, lastDelete, activeRequests, detail,
                raced, wearerDetails, caregiversScreen>>

\* onAuthStateChange with a session after Login: setSession, then
\* loadUserProfile starts (setProfileLoading(true) and the profile query).
SignIn(i) ==
    /\ ~auth[i].session
    /\ LoadsInFlight(i) < MaxLoads
    /\ auth' = [auth EXCEPT ![i].session = TRUE, ![i].signedInAt = now,
                            ![i].profileLoading = TRUE]
    /\ loads' = [loads EXCEPT ![i].getUserProfile = @ + 1]
    /\ UnchangedByAuth
    /\ UNCHANGED <<now, users, caregiver_invitations, nextInvitationId>>

\* A further auth event with the session (initial session, token refresh)
\* or refreshUserProfile: loadUserProfile starts again.
AuthStateChange(i) ==
    /\ auth[i].session
    /\ LoadsInFlight(i) < MaxLoads
    /\ auth' = [auth EXCEPT ![i].profileLoading = TRUE]
    /\ loads' = [loads EXCEPT ![i].getUserProfile = @ + 1]
    /\ UnchangedByAuth
    /\ UNCHANGED <<now, users, caregiver_invitations, nextInvitationId>>

\* onAuthStateChange without a session
SignOut(i) ==
    /\ auth[i].session
    /\ auth' = [auth EXCEPT ![i] = [SignedOut EXCEPT !.issued = auth[i].issued]]
    /\ UnchangedByAuth
    /\ UNCHANGED <<now, users, caregiver_invitations, nextInvitationId, loads>>

LoadFailed_KeepsState(a) == [a EXCEPT !.profileLoading = FALSE]

\* The catch and finally blocks of loadUserProfile
LoadFailed(a) ==
    [a EXCEPT !.invitationInfo = NoInvitation, !.needsProfileSetup = TRUE,
              !.profileLoading = FALSE]

\* loadUserProfile: the profile query is answered.
GetUserProfileResponse(i, ok) ==
    /\ loads[i].getUserProfile > 0
    /\ LET profile == getUserProfile(i)
       IN  IF ~ok
             THEN /\ auth' = [auth EXCEPT ![i] = LoadFailed(@)]
                  /\ loads' = [loads EXCEPT ![i].getUserProfile = @ - 1]
           ELSE IF profile # NoProfile
             THEN /\ auth' = [auth EXCEPT
                        ![i].userProfile = profile,
                        ![i].invitationInfo = NoInvitation,
                        ![i].needsProfileSetup = ~hasCompletedProfile(profile),
                        ![i].profileLoading = FALSE]
                  /\ loads' = [loads EXCEPT ![i].getUserProfile = @ - 1]
           ELSE /\ UNCHANGED auth
                /\ loads' = [loads EXCEPT ![i].getUserProfile = @ - 1,
                                          ![i].checkInvitation = @ + 1]
    /\ UnchangedByAuth
    /\ UNCHANGED <<now, users, caregiver_invitations, nextInvitationId>>

\* loadUserProfile: the invitation query is answered.
CheckInvitationResponse(i, ok) ==
    /\ loads[i].checkInvitation > 0
    /\ loads' = [loads EXCEPT ![i].checkInvitation = @ - 1]
    /\ auth' = [auth EXCEPT ![i] =
          IF ~ok THEN LoadFailed(@)
          ELSE [@ EXCEPT !.invitationInfo = checkInvitation(i),
                         !.userProfile = NoProfile,
                         !.needsProfileSetup = TRUE,
                         !.profileLoading = FALSE]]
    /\ UnchangedByAuth
    /\ UNCHANGED <<now, users, caregiver_invitations, nextInvitationId>>

(***************************************************************************)
(* Onboarding: ProfileSetupScreen and the provisioning procedures          *)
(***************************************************************************)
\* The navigator mounts ProfileSetupScreen.
ProfileSetupVisible(i) ==
    /\ auth[i].session
    /\ ~auth[i].profileLoading
    /\ auth[i].needsProfileSetup

\* The account that create_safeloop_account provisions for an identity.
NewAccountOf(i) == IF i = "u2" THEN "a2" ELSE "a3"

\* rpc accept_caregiver_invitation is applied: the invitation of the token
\* is pending and alive, it names the email, and the identity has no profile.
CanAcceptInvitation(i, k) ==
    /\ k \in DOMAIN caregiver_invitations
    /\ caregiver_invitations[k].email = i
    /\ caregiver_invitations[k].status = "pending"
    /\ caregiver_invitations[k].expires_at > now
    /\ i \notin DOMAIN users

\* rpc accept_caregiver_invitation: a caregiver profile in the account of
\* the invitation; the invitation is consumed.
accept_caregiver_invitation(i, k, name) ==
    /\ users' = Put(users, i,
          [safeloop_account_id |-> caregiver_invitations[k].safeloop_account_id,
           user_type |-> "caregiver", display_name |-> name])
    /\ caregiver_invitations' =
          [caregiver_invitations EXCEPT ![k].status = "accepted"]

\* rpc create_safeloop_account: a new account with the identity as its admin
create_safeloop_account(i, name) ==
    /\ users' = Put(users, i,
          [safeloop_account_id |-> NewAccountOf(i),
           user_type |-> "caregiver_admin", display_name |-> name])
    /\ UNCHANGED caregiver_invitations

\* ProfileSetupScreen.handleSave with a name that is not blank: the
\* procedure of the path that invitationInfo selects, then
\* refreshUserProfile; an error is shown and nothing is refreshed.
HandleSave(i, name, ok) ==
    LET invitationInfo == auth[i].invitationInfo
        caregiverPath == invitationInfo # NoInvitation
        applied == IF caregiverPath
                     THEN ok /\ CanAcceptInvitation(i, invitationInfo.invitation_id)
                     ELSE ok /\ i \notin DOMAIN users
        rpc == IF caregiverPath THEN "accept_caregiver_invitation"
               ELSE "create_safeloop_account"
    IN
    /\ ProfileSetupVisible(i)
    /\ Len(trim(name)) > 0
    /\ LoadsInFlight(i) < MaxLoads
    /\ IF applied
         THEN /\ IF caregiverPath
                   THEN accept_caregiver_invitation(
                            i, invitationInfo.invitation_id, name)
                   ELSE create_safeloop_account(i, name)
              /\ auth' = [auth EXCEPT ![i].issued = rpc,
                                      ![i].profileLoading = TRUE]
              /\ loads' = [loads EXCEPT ![i].getUserProfile = @ + 1]
         ELSE /\ UNCHANGED <<users, caregiver_invitations, loads>>
              /\ auth' = [auth EXCEPT ![i].issued = rpc]
    /\ UnchangedByAuth
    /\ UNCHANGED <<now, nextInvitationId>>

(***************************************************************************)
(* Invitations: the gateway, InviteCaregiverScreen and CaregiversScreen     *)
(***************************************************************************)
\* userService.inviteCaregiver: the invite-caregiver function creates a
\* pending invitation of the account for the email.
inviteCaregiver(email, account, caller) ==
    /\ nextInvitationId <= MaxInvitations
    /\ caregiver_invitations' =
          Put(caregiver_invitations, nextInvitationId,
              [email |-> email, status |-> "pending",
               expires_at |-> now + InvitationTtl,
               safeloop_account_id |-> account, invited_by |-> caller])
    /\ nextInvitationId' = nextInvitationId + 1

\* InviteCaregiverScreen.handleSendInvitation with a valid email: the
\* account check and the role check, then the gateway call.
HandleSendInvitation(u, email) ==
    /\ IF ~HasAccount(u)
         THEN /\ caregiversScreen' = [caregiversScreen EXCEPT
                    ![u].alert = "Account information not found."]
              /\ UNCHANGED <<caregiver_invitations, nextInvitationId>>
       ELSE IF ~isAdmin(u)
         THEN /\ caregiversScreen' = [caregiversScreen EXCEPT
                    ![u].alert = "Only account admins can invite caregivers."]
              /\ UNCHANGED <<caregiver_invitations, nextInvitationId>>
       ELSE /\ inviteCaregiver(email, safeloop_account_id(u), u)
            /\ UNCHANGED caregiversScreen
    /\ caregiversScreen'[u] # caregiversScreen[u]
          \/ caregiver_invitations' # caregiver_invitations
    /\ UNCHANGED <<dbvars, idvars, call, lastDelete, helpvars, wearerDetails,
                   users, auth, loads>>

\* userService.getPendingInvitations: the pending invitations of the
\* account, expired ones included
getPendingInvitations(u) ==
    {k \in DOMAIN caregiver_invitations :
        /\ caregiver_invitations[k].safeloop_account_id = safeloop_account_id(u)
        /\ caregiver_invitations[k].status = "pending"}

\* CaregiversScreen.loadCaregivers sets the list of invitations.
LoadCaregivers(u) ==
    /\ HasAccount(u)
    /\ caregiversScreen' = [caregiversScreen EXCEPT
          ![u].loaded = TRUE,
          ![u].invitations =
              {[id |-> k, email |-> caregiver_invitations[k].email] :
                  k \in getPendingInvitations(u)}]
    /\ caregiversScreen'[u] # caregiversScreen[u]
    /\ UNCHANGED <<dbvars, idvars, call, lastDelete, helpvars, wearerDetails,
                   authvars>>

\* CaregiversScreen.handleResendInvitation for an entry of the list: the
\* role check and the account check, then a new invitation for the email
\* and a reload.
HandleResendInvitation(u, invitation) ==
    /\ caregiversScreen[u].loaded
    /\ invitation \in caregiversScreen[u].invitations
    /\ IF ~isAdmin(u)
         THEN /\ caregiversScreen' = [caregiversScreen EXCEPT
                    ![u].alert = "Only account admins can resend invitations."]
              /\ UNCHANGED <<caregiver_invitations, nextInvitationId>>
       ELSE IF ~HasAccount(u)
         THEN /\ caregiversScreen' = [caregiversScreen EXCEPT
                    ![u].alert = "Account information not found."]
              /\ UNCHANGED <<caregiver_invitations, nextInvitationId>>
       ELSE /\ inviteCaregiver(invitation.email, safeloop_account_id(u), u)
            /\ caregiversScreen' = [caregiversScreen EXCEPT
                  ![u].invitations =
                      {[id |-> k, email |-> caregiver_invitations'[k].email] :
                          k \in {x \in DOMAIN caregiver_invitations' :
                              /\ caregiver_invitations'[x].safeloop_account_id
                                    = safeloop_account_id(u)
                              /\ caregiver_invitations'[x].status = "pending"}}]
    /\ caregiversScreen'[u] # caregiversScreen[u]
          \/ caregiver_invitations' # caregiver_invitations
    /\ UNCHANGED <<dbvars, idvars, call, lastDelete, helpvars, wearerDetails,
                   users, auth, loads>>

\* Time passes.
Tick ==
    /\ now <= MaxTicks
    /\ now' = now + 1
    /\ UNCHANGED <<dbvars, idvars, call, lastDelete, activeRequests, detail,
                   raced, screenvars>>

(***************************************************************************)
(* Specifications                                                          *)
(***************************************************************************)
\* The steps of createWearer calls by the given callers; outcomes says
\* whether a backend request may fail (FALSE) for a reason of its own.
CreateWearerSteps(callers, outcomes) ==
    \/ \E u \in callers, code \in Codes, ok \in outcomes :
          CreateWearerLookup(u, code, ok)
    \/ \E u \in callers, ok \in outcomes : CreateWearerInsert(u, ok)
    \/ \E u \in callers, ok \in outcomes : CreateWearerDevice(u, ok)
    \/ \E u \in callers, ok \in outcomes : CreateWearerCleanup(u, ok)
    \/ \E u \in callers, ok \in outcomes : CreateWearerHydrate(u, ok)
    \/ \E u \in callers : CreateWearerDone(u)

Deletions ==
    \/ \E u \in Users, w \in WearerIds, ok \in BOOLEAN : DeleteWearer(u, w, ok)
    \/ \E w \in WearerIds, ok \in BOOLEAN : DeleteWearerSafely(w, ok)

\* The deletions, with the outcome of the latest one recorded.
DeletionsObserved ==
    \/ \E u \in Users, w \in WearerIds, ok \in BOOLEAN :
          /\ DeleteWearer(u, w, ok)
          /\ lastDelete' = [op |-> "deleteWearer", ok |-> ok,
                            deps |-> HasDependents(w)]
    \/ \E w \in WearerIds, ok \in BOOLEAN :
          /\ DeleteWearerSafely(w, ok)
          /\ lastDelete' = [op |-> "delete_wearer_safely",
                            ok |-> ok /\ WearerExists(w),
                            deps |-> HasDependents(w)]

\* Wearer registration by concurrent caregivers, with deletion and the watch.
Next ==
    \/ CreateWearerSteps({"u1", "u2"}, BOOLEAN) /\ UNCHANGED <<helpvars, screenvars>>
    \/ Deletions /\ UNCHANGED <<lastDelete, helpvars, screenvars>>
    \/ \E code \in Codes : RegisterDevice(code) /\ UNCHANGED <<helpvars, screenvars>>

Spec == Init /\ [][Next]_vars

\* Wearer deletion with the rows that depend on a wearer.
NextDelete ==
    \/ CreateWearerSteps({"u1"}, {TRUE}) /\ UNCHANGED <<helpvars, screenvars>>
    \/ DeletionsObserved /\ UNCHANGED <<helpvars, screenvars>>
    \/ \E w \in WearerIds : CreateHelpRequest(w) /\ UNCHANGED <<helpvars, screenvars>>
    \/ \E w \in WearerIds : CreateWearerSettings(w) /\ UNCHANGED <<helpvars, screenvars>>
    \/ \E c \in Users, w \in WearerIds :
          AssignCaregiverToWearer(c, w) /\ UNCHANGED <<helpvars, screenvars>>

SpecDelete == Init /\ [][NextDelete]_vars

\* A registered wearer of account a1 with its device, and no help request.
InitHelp ==
    /\ InitViews
    /\ wearers = <<[safeloop_account_id |-> "a1"]>>
    /\ devices = <<NewDevice("1234567", 1)>>
    /\ caregiver_wearer_assignments = <<>>
    /\ help_requests = <<>>
    /\ wearer_settings = {}
    /\ nextWearerId = 2
    /\ nextDeviceId = 2
    /\ nextHelpRequestId = 1
    /\ nextAssignmentId = 1
    /\ call = [u \in Users |-> Idle]
    /\ lastDelete = NoDelete
    /\ InitAuthWith({<<"A">>})

\* The life of help requests: the alert producer and two caregivers with
\* their dashboards and detail screens.
NextHelp ==
    \/ \E w \in WearerIds : CreateHelpRequest(w) /\ UNCHANGED <<helpvars, screenvars>>
    \/ \E u \in {"u1", "u2"} : LoadHelpRequests(u) /\ UNCHANGED screenvars
    \/ \E u \in {"u1", "u2"}, h \in HelpRequestIds, status \in Terminal :
          HandleResolveAlert(u, h, status) /\ UNCHANGED screenvars
    \/ \E u \in {"u1", "u2"}, h \in HelpRequestIds : OpenDetail(u, h) /\ UNCHANGED screenvars
    \/ \E u \in {"u1", "u2"} : \E n \in NotesOf(u) :
          SetNotes(u, n) /\ UNCHANGED screenvars
    \/ \E u \in {"u1", "u2"} : HandleSaveNotes(u) /\ UNCHANGED screenvars
    \/ \E u \in {"u1", "u2"}, status \in Terminal :
          HandleResolve(u, status) /\ UNCHANGED screenvars
    \/ \E u \in {"u1", "u2"} : CloseDetail(u) /\ UNCHANGED screenvars

SpecHelp == InitHelp /\ [][NextHelp]_vars

\* Caregiver management: the screens of the admin and of a caregiver of the
\* account, for the registered wearer and for the invitations of the account.
\* The admin sends every invitation from InviteCaregiverScreen.
NextAssign ==
    \/ \E u \in {"u1", "u2"}, w \in WearerIds : FocusWearerDetails(u, w)
          /\ UNCHANGED <<realtimevars, formvars>>
    \/ \E u \in {"u1", "u2"} : ReadAssigned(u)
          /\ UNCHANGED <<realtimevars, formvars>>
    \/ \E u \in {"u1", "u2"} : ReadAvailable(u)
          /\ UNCHANGED <<realtimevars, formvars>>
    \/ \E u \in {"u1", "u2"} : LoadWearerDetailsDone(u)
          /\ UNCHANGED <<realtimevars, formvars>>
    \/ \E u \in {"u1", "u2"} : HandleRefresh(u)
          /\ UNCHANGED <<realtimevars, formvars>>
    \/ \E u \in {"u1", "u2"}, c \in Users : HandleAssignCaregiver(u, c)
          /\ UNCHANGED <<realtimevars, formvars>>
    \/ \E u \in {"u1", "u2"}, a \in AssignmentIds : HandleRemoveCaregiver(u, a)
          /\ UNCHANGED <<realtimevars, formvars>>
    \/ \E u \in {"u1", "u2"} : BackFromWearerDetails(u)
          /\ UNCHANGED <<realtimevars, formvars>>
    \/ \E u \in {"u1", "u2"} : HandleSendInvitation(u, "u3")
          /\ UNCHANGED <<realtimevars, formvars>>
    \/ LoadCaregivers("u2")
          /\ UNCHANGED <<realtimevars, formvars>>
    \/ \E k \in 1..MaxInvitations :
          HandleResendInvitation("u2", [id |-> k, email |-> "u3"])
          /\ UNCHANGED <<realtimevars, formvars>>

SpecAssign == InitHelp /\ [][NextAssign]_vars

\* No wearer, no session on any device; caregiver u2 has any display name.
InitSignIn ==
    /\ InitViews
    /\ wearers = <<>>
    /\ devices = <<>>
    /\ caregiver_wearer_assignments = <<>>
    /\ help_requests = <<>>
    /\ wearer_settings = {}
    /\ nextWearerId = 1
    /\ nextDeviceId = 1
    /\ nextHelpRequestId = 1
    /\ nextAssignmentId = 1
    /\ call = [u \in Users |-> Idle]
    /\ lastDelete = NoDelete
    /\ InitAuthWith(DisplayNames)

\* Sign-in and onboarding of caregiver u2 and of the new identity u3, whom
\* the admin u1 invites.
NextSignIn ==
    \/ \E i \in {"u2", "u3"} : SignIn(i)
          /\ UNCHANGED <<realtimevars, formvars>>
    \/ AuthStateChange("u3")
          /\ UNCHANGED <<realtimevars, formvars>>
    \/ SignOut("u3")
          /\ UNCHANGED <<realtimevars, formvars>>
    \/ \E i \in {"u2", "u3"}, ok \in BOOLEAN : GetUserProfileResponse(i, ok)
          /\ UNCHANGED <<realtimevars, formvars>>
    \/ \E i \in {"u2", "u3"}, ok \in BOOLEAN : CheckInvitationResponse(i, ok)
          /\ UNCHANGED <<realtimevars, formvars>>
    \/ \E i \in {"u2", "u3"}, ok \in BOOLEAN : HandleSave(i, <<"B">>, ok)
          /\ UNCHANGED <<realtimevars, formvars>>
    \/ HandleSendInvitation("u1", "u3")
          /\ UNCHANGED <<realtimevars, formvars>>
    \/ Tick
          /\ UNCHANGED <<realtimevars, formvars>>

SpecSignIn == InitSignIn /\ [][NextSignIn]_vars

(***************************************************************************)
(* Properties of wearer registration                                       *)
(***************************************************************************)
\* C1: createWearer with a code that is bound to a wearer when the call
\* looks it up throws the conflict error and changes no table: no wearer
\* row is created and no device row or binding is touched.
C1_BoundCodeIsRejected ==
    [][\A u \in Users, code \in Codes :
          (HasAccount(u) /\ CodeBound(code) /\ CreateWearerLookup(u, code, TRUE))
          => /\ call'[u].pc = "thrown"
             /\ call'[u].err = "conflict"
             /\ call'[u].wearer = NULL
             /\ UNCHANGED dbvars]_vars

C1_Witness ==
    \E u \in Users :
        /\ call[u].pc = "thrown"
        /\ call[u].err = "conflict"
        /\ call[u].boundAtCall

\* C2: a createWearer call for a code that was bound to no wearer returns a
\* wearer with exactly one device, which carries the code and is not
\* verified.
C2_UnboundCodeYieldsOneUnverifiedDevice ==
    \A u \in Users :
        (call[u].pc = "returned" /\ ~call[u].boundAtCall)
        => /\ Cardinality(call[u].result) = 1
           /\ \A r \in call[u].result :
                 r.seven_digit_code = call[u].code /\ ~r.is_verified

WearerOfCode(tbl, code) ==
    {tbl[d].wearer_id : d \in {x \in DOMAIN tbl :
        tbl[x].seven_digit_code = code /\ tbl[x].wearer_id # NULL}}

\* C3: no two bound devices carry the same code, and a code bound to a
\* wearer is never bound to a different wearer.
C3_BoundCodeKeepsItsWearer ==
    [][\A code \in Codes :
          /\ Cardinality({d \in DOMAIN devices' :
                devices'[d].seven_digit_code = code
                /\ devices'[d].wearer_id # NULL}) <= 1
          /\ \A w1 \in WearerOfCode(devices, code),
                w2 \in WearerOfCode(devices', code) : w1 = w2]_vars

\* C4: a failed device step sends the call to its clean-up, which deletes
\* the wearer the call created and no other wearer and rethrows the device
\* error; when that delete is applied the wearer is gone and no device
\* references it.
C4_FailedDeviceStepIsCompensated ==
    [][\A u \in Users :
          /\ (call[u].pc = "deviceStep" /\ call'[u].pc # "deviceStep")
             => \/ call'[u].pc = "hydrate"
                \/ call'[u].pc = "cleanup" /\ UNCHANGED dbvars
          /\ (call[u].pc = "cleanup" /\ call'[u].pc # "cleanup")
             => /\ call'[u].pc = "thrown"
                /\ call'[u].err = "device_error"
                /\ DOMAIN wearers \ {call[u].wearer} = DOMAIN wearers'
                      \ {call[u].wearer}
                /\ call'[u].cleanupApplied
                   => /\ call[u].wearer \notin DOMAIN wearers'
                      /\ \A d \in DOMAIN devices' :
                            devices'[d].wearer_id # call[u].wearer]_vars

C4_Witness ==
    \E u \in Users :
        /\ call[u].pc = "thrown"
        /\ call[u].err = "device_error"
        /\ call[u].cleanupApplied
        /\ call[u].wearer # NULL

(***************************************************************************)
(* Properties of wearer deletion                                           *)
(***************************************************************************)
\* No row of a dependent table references wearer w.
Unreferenced(w) ==
    /\ \A d \in DOMAIN devices : devices[d].wearer_id # w
    /\ \A a \in DOMAIN caregiver_wearer_assignments :
          caregiver_wearer_assignments[a].wearer_id # w
    /\ \A h \in DOMAIN help_requests : help_requests[h].wearer_id # w
    /\ w \notin wearer_settings

\* C5: after deleteWearer(w) succeeds the devices that were bound to w
\* still exist and are unbound, no assignment, help request or settings row
\* references w, and w is not resolvable.
C5_DeleteWearerKeepsDevicesUnbound ==
    [][\A u \in Users, w \in WearerIds :
          DeleteWearer(u, w, TRUE)
          => /\ \A d \in DevicesOf(w) :
                   d \in DOMAIN devices' /\ devices'[d].wearer_id = NULL
             /\ Unreferenced(w)'
             /\ w \notin DOMAIN wearers']_vars

C7_TerminalStateIsKept ==
    [][\A h \in DOMAIN help_requests :
          (help_requests[h].event_status \in Terminal
           /\ h \in DOMAIN help_requests')
          => help_requests'[h].event_status = help_requests[h].event_status]_vars

\* C8: every update of a help request by the application sets its state to
\* responded_to, resolved or false_alarm, so a request that has left active
\* never returns to active.
C8_ActiveIsNeverWritten ==
    [][\A h \in DOMAIN help_requests :
          h \in DOMAIN help_requests'
          => /\ help_requests'[h] # help_requests[h]
                => help_requests'[h].event_status
                      \in {"responded_to", "resolved", "false_alarm"}
             /\ help_requests[h].event_status # "active"
                => help_requests'[h].event_status # "active"]_vars

C8_Witness ==
    \E h \in DOMAIN help_requests :
        /\ help_requests[h].event_status = "responded_to"
        /\ help_requests[h].responded_by # ""

\* The screens of caregiver u show the current state of request h.
ViewsUpToDate(u, h) ==
    /\ activeRequests[u] = getActiveHelpRequests(safeloop_account_id(u))
    /\ \/ detail[u].id = NULL
       \/ /\ detail[u].id = h
          /\ detail[u].event_status = help_requests[h].event_status

\* C9: for every help request that is active or responded_to, a caregiver
\* of the account whose screens show its current state has a control that
\* closes it (as resolved and as false_alarm).
C9_OpenRequestCanBeClosed ==
    \A u \in Users, h \in DOMAIN help_requests :
        (/\ HasAccount(u)
         /\ InAccount(h, safeloop_account_id(u))
         /\ help_requests[h].event_status \in {"active", "responded_to"}
         /\ ViewsUpToDate(u, h))
        => \/ CanResolveFromDashboard(u, h)
           \/ detail[u].id = h /\ CanResolveFromDetail(u)

C11_SecondSaveOverwritesNotes ==
    [][\A u \in Users :
          (/\ HandleSaveNotes(u)
           /\ detail[u].id \in DOMAIN help_requests
           /\ help_requests[detail[u].id].responded_by # "")
          => help_requests'[detail[u].id].notes = detail[u].notes]_vars

(***************************************************************************)
(* Properties of caregiver assignment                                      *)
(***************************************************************************)
\* C12: the Available and the Assigned caregivers of a wearer are disjoint
\* and together are the profiles of the account, as the gateway answers and
\* as the pair of lists that a screen has loaded together.
C12_AvailableAndAssignedPartitionAccount ==
    /\ \A u \in Users, w \in DOMAIN wearers :
          HasAccount(u) /\ wearers[w].safeloop_account_id = safeloop_account_id(u)
          => LET assigned == {e.id : e \in getAssignedCaregivers(w)}
                 available == getAvailableCaregivers(u, w)
             IN  /\ assigned \cap available = {}
                 /\ assigned \cup available =
                       AccountProfiles(safeloop_account_id(u))
    /\ \A u \in Users :
          wearerDetails[u].loaded
          => LET assigned == {e.id : e \in wearerDetails[u].assignedCaregivers}
                 available == wearerDetails[u].availableCaregivers
             IN  /\ assigned \cap available = {}
                 /\ assigned \cup available =
                       AccountProfiles(safeloop_account_id(u))

(***************************************************************************)
(* Properties of the profile resolver and of onboarding                    *)
(***************************************************************************)
\* C13: when the profile query of loadUserProfile finds the profile of the
\* identity, the context exposes that profile, has no invitation, and needs
\* profile setup exactly when the display name has no character other than
\* white space.
C13_ExistingProfileIsExposed ==
    [][\A i \in Users :
          (GetUserProfileResponse(i, TRUE) /\ i \in DOMAIN users)
          => /\ auth'[i].userProfile.id = i
             /\ auth'[i].userProfile.safeloop_account_id =
                   users[i].safeloop_account_id
             /\ auth'[i].userProfile.user_type = users[i].user_type
             /\ auth'[i].userProfile.display_name = users[i].display_name
             /\ auth'[i].invitationInfo = NoInvitation
             /\ auth'[i].needsProfileSetup =
                   ~(\E k \in 1..Len(users[i].display_name) :
                        users[i].display_name[k] # " ")]_vars

C13_Witness ==
    \E i \in DOMAIN users :
        /\ auth[i].session
        /\ ~auth[i].profileLoading
        /\ auth[i].userProfile.id = i
        /\ Len(auth[i].userProfile.display_name) > 0
        /\ auth[i].needsProfileSetup

\* The invitations for an email that are pending and not expired.
OpenInvitations(email) ==
    {k \in DOMAIN caregiver_invitations :
        /\ caregiver_invitations[k].email = email
        /\ caregiver_invitations[k].status = "pending"
        /\ caregiver_invitations[k].expires_at > now}

\* C14: for an identity without a profile and with one or several pending,
\* unexpired invitations for its email, the invitation query of
\* loadUserProfile exposes one of them with the inviter's account, and the
\* submit of onboarding issues accept_caregiver_invitation, never
\* create_safeloop_account.
C14_OpenInvitationLeadsToCaregiverPath ==
    [][\A i \in Users :
          /\ (/\ CheckInvitationResponse(i, TRUE)
              /\ i \notin DOMAIN users
              /\ OpenInvitations(i) # {})
             => /\ auth'[i].invitationInfo.invitation_id \in OpenInvitations(i)
                /\ auth'[i].invitationInfo.safeloop_account_id = "a1"
          /\ (/\ \E ok \in BOOLEAN : HandleSave(i, <<"B">>, ok)
              /\ i \notin DOMAIN users
              /\ OpenInvitations(i) # {})
             => auth'[i].issued = "accept_caregiver_invitation"]_vars

\* The invitations for an email, whatever their status.
InvitationsFor(email) ==
    {k \in DOMAIN caregiver_invitations :
        caregiver_invitations[k].email = email}

\* The identity has no profile and has invitations, all of which had
\* expired when it signed in.
ExpiredAtSignIn(i) ==
    /\ auth[i].session
    /\ i \notin DOMAIN users
    /\ InvitationsFor(i) # {}
    /\ \A k \in InvitationsFor(i) :
          caregiver_invitations[k].expires_at <= auth[i].signedInAt

\* C15: for an identity without a profile whose invitations had all
\* expired when it signed in, pending or not, the resolved context has no
\* invitation and needs profile setup, and the submit of onboarding issues
\* create_safeloop_account, which makes the identity an admin.
C15_ExpiredInvitationIsNoInvitation ==
    [][\A i \in Users :
          /\ (ExpiredAtSignIn(i)' /\ ~auth'[i].profileLoading)
             => /\ auth'[i].invitationInfo = NoInvitation
                /\ auth'[i].needsProfileSetup
          /\ (ExpiredAtSignIn(i) /\ HandleSave(i, <<"B">>, TRUE))
             => /\ auth'[i].issued = "create_safeloop_account"
                /\ i \in DOMAIN users'
                /\ users'[i].user_type = "caregiver_admin"]_vars

C15_Witness ==
    \E i \in DOMAIN users :
        /\ auth[i].session
        /\ users[i].user_type = "caregiver_admin"
        /\ auth[i].issued = "create_safeloop_account"
        /\ \E k \in InvitationsFor(i) :
              /\ caregiver_invitations[k].status = "pending"
              /\ caregiver_invitations[k].expires_at <= auth[i].signedInAt

\* C16: a backend error of the profile query or of the invitation query
\* ends loadUserProfile with needsProfileSetup, without an invitation and
\* without profileLoading; nothing else of the context and no table changes.
C16_LookupErrorFailsOpen ==
    [][\A i \in Users :
          (GetUserProfileResponse(i, FALSE) \/ CheckInvitationResponse(i, FALSE))
          => /\ auth'[i].needsProfileSetup
             /\ auth'[i].invitationInfo = NoInvitation
             /\ ~auth'[i].profileLoading
             /\ auth'[i].session = auth[i].session
             /\ auth'[i].userProfile = auth[i].userProfile
             /\ UNCHANGED <<users, caregiver_invitations>>]_vars

C16_Witness ==
    \E i \in DOMAIN users :
        /\ hasCompletedProfile(getUserProfile(i))
        /\ auth[i].session
        /\ auth[i].userProfile = NoProfile
        /\ auth[i].needsProfileSetup
        /\ ~auth[i].profileLoading

(***************************************************************************)
(* Properties of authorization                                             *)
(***************************************************************************)
\* A step of one of the caregiver-management handlers of caregiver u.
ManagementHandler(u) ==
    \/ \E c \in Users : HandleAssignCaregiver(u, c)
    \/ \E a \in AssignmentIds : HandleRemoveCaregiver(u, a)
    \/ \E email \in Users : HandleSendInvitation(u, email)
    \/ \E invitation \in caregiversScreen[u].invitations :
          HandleResendInvitation(u, invitation)

\* C17: the handlers that assign a caregiver, remove an assignment, invite
\* a caregiver and resend an invitation issue no gateway call for a caller
\* whose role is not caregiver_admin: no table changes.
C17_ManagementNeedsAdminRole ==
    [][\A u \in Users :
          (user_type(u) # "caregiver_admin" /\ ManagementHandler(u))
          => UNCHANGED <<dbvars, idvars, users, caregiver_invitations,
                         nextInvitationId>>]_vars

C17_Witness ==
    \E u \in Users :
        /\ user_type(u) # "caregiver_admin"
        /\ wearerDetails[u].alert \in
              {"Only account admins can assign caregivers.",
               "Only account admins can remove caregivers."}
        /\ caregiversScreen[u].alert \in
              {"Only account admins can invite caregivers.",
               "Only account admins can resend invitations."}
        /\ caregiver_wearer_assignments # <<>>
        /\ caregiver_invitations # <<>>

(***************************************************************************)
(* Two accounts: the scope of the gateway                                  *)
(***************************************************************************)
\* A registered wearer of account a1 and one of account a2, each with its
\* device; u1 is a caregiver of a1.
InitScope ==
    /\ InitViews
    /\ wearers = <<[safeloop_account_id |-> "a1"],
                   [safeloop_account_id |-> "a2"]>>
    /\ devices = <<NewDevice("1234567", 1), NewDevice("7654321", 2)>>
    /\ caregiver_wearer_assignments = <<>>
    /\ help_requests = <<>>
    /\ wearer_settings = {}
    /\ nextWearerId = 3
    /\ nextDeviceId = 3
    /\ nextHelpRequestId = 1
    /\ nextAssignmentId = 1
    /\ call = [u \in Users |-> Idle]
    /\ lastDelete = NoDelete
    /\ InitAuthWith({<<"A">>})

\* Alerts of the wearers of both accounts; the dashboard of u1, and the
\* detail screen that u1 opens from the notification of a help request.
NextScope ==
    \/ \E w \in DOMAIN wearers :
          CreateHelpRequest(w) /\ UNCHANGED <<helpvars, screenvars>>
    \/ LoadHelpRequests("u1") /\ UNCHANGED screenvars
    \/ \E h \in HelpRequestIds, status \in Terminal :
          HandleResolveAlert("u1", h, status) /\ UNCHANGED screenvars
    \/ \E h \in HelpRequestIds : OpenDetail("u1", h) /\ UNCHANGED screenvars
    \/ \E n \in NotesOf("u1") : SetNotes("u1", n) /\ UNCHANGED screenvars
    \/ HandleSaveNotes("u1") /\ UNCHANGED screenvars
    \/ \E status \in Terminal : HandleResolve("u1", status) /\ UNCHANGED screenvars
    \/ CloseDetail("u1") /\ UNCHANGED screenvars

SpecScope == InitScope /\ [][NextScope]_vars

\* The help request h exists and is of a wearer of another account than
\* the account of caregiver u.
OfAnotherAccount(h, u) ==
    /\ h \in DOMAIN help_requests
    /\ ~InAccount(h, safeloop_account_id(u))

\* C18: the gateway calls made for a caregiver of account a1 neither return
\* nor modify a help request of a wearer of another account: the detail
\* screen of the caregiver never holds such a request, and the rows of such
\* requests stay as they are.
C18_GatewayScopedToCallerAccount ==
    [][/\ ~OfAnotherAccount(detail["u1"].id, "u1")'
       /\ \A h \in DOMAIN help_requests :
             OfAnotherAccount(h, "u1") => help_requests'[h] = help_requests[h]]_vars

(***************************************************************************)
(* Realtime subscriptions and re-fetches (HomeScreen, WearersScreen)       *)
(***************************************************************************)
\* The channel of instance n of the dashboard: supabase.channel(...).on(
\* 'postgres_changes', {table: 'help_requests'}, () => loadHelpRequests())
HomeChannels(n) ==
    {[screen |-> "HomeScreen", instance |-> n,
      name |-> "help-requests-realtime", table |-> "help_requests"]}

\* The three channels of instance n of the wearers screen; connection-test
\* listens to no table.  Every wearer of the model is of the account that
\* the filter of wearers-realtime names.
WearersChannels(n) ==
    {[screen |-> "WearersScreen", instance |-> n, name |-> c.name,
      table |-> c.table] :
        c \in {[name |-> "connection-test", table |-> ""],
               [name |-> "wearers-realtime", table |-> "wearers"],
               [name |-> "devices-verification", table |-> "devices"]}}

\* The queries of the re-fetch of a screen: loadHelpRequests issues two
\* (Promise.all), loadWearers one.
Queries(screen) ==
    IF screen = "HomeScreen"
      THEN {"getActiveHelpRequests", "getResolvedHelpRequests"}
      ELSE {"getWearers"}

\* userService.getResolvedHelpRequests; the limit of 50 rows is above the
\* number of help requests.
getResolvedHelpRequests(account) ==
    {h \in DOMAIN help_requests :
        help_requests[h].event_status \in Terminal /\ InAccount(h, account)}

\* userService.getWearers: the wearers of the account of the profile
getWearers(u) ==
    {w \in DOMAIN wearers :
        wearers[w].safeloop_account_id = safeloop_account_id(u)}

\* The rows that the backend returns for query q of caregiver u.
QueryResult(q, u) ==
    CASE q = "getActiveHelpRequests" ->
            getActiveHelpRequests(safeloop_account_id(u))
      [] q = "getResolvedHelpRequests" ->
            getResolvedHelpRequests(safeloop_account_id(u))
      [] OTHER -> getWearers(u)

\* A re-fetch that instance n of a screen has issued: no query answered.
NewFetch(screen, n) ==
    [screen |-> screen, instance |-> n,
     responses |-> [q \in Queries(screen) |-> [done |-> FALSE, rows |-> {}]]]

\* The requests of the device in flight at a time are bounded.
CanFetch == BagCardinality(fetches) < MaxInFlight

\* subscribe: the new channels have no event pending
Subscribed(new) ==
    [c \in channels \cup new |-> IF c \in channels THEN events[c] ELSE 0]

\* The table changes in this step.
TableChanged(t) ==
    CASE t = "help_requests" -> help_requests' # help_requests
      [] t = "wearers"       -> wearers' # wearers
      [] t = "devices"       -> devices' # devices
      [] OTHER               -> FALSE

\* postgres_changes: the backend queues a change event on every channel
\* that listens to a table changed by the step.
Publish ==
    events' = [c \in channels |->
                  IF TableChanged(c.table) THEN events[c] + 1 ELSE events[c]]

\* HomeScreen mounts: useState initial values; the effect calls
\* loadHelpRequests and setupRealtimeSubscription.
MountHomeScreen(u) ==
    /\ HasAccount(u)
    /\ mounted["HomeScreen"] = 0
    /\ mountCount["HomeScreen"] < MaxMounts
    /\ CanFetch
    /\ LET n == mountCount["HomeScreen"] + 1
       IN  /\ mounted' = [mounted EXCEPT !["HomeScreen"] = n]
           /\ mountCount' = [mountCount EXCEPT !["HomeScreen"] = n]
           /\ channels' = channels \cup HomeChannels(n)
           /\ events' = Subscribed(HomeChannels(n))
           /\ fetches' = fetches (+) SetToBag({NewFetch("HomeScreen", n)})
    /\ activeRequests' = [activeRequests EXCEPT ![u] = {}]
    /\ resolvedRequests' = [resolvedRequests EXCEPT ![u] = {}]
    /\ UNCHANGED <<dbvars, idvars, call, lastDelete, now, detail, raced,
                   wearerDetails, authvars, caregiversScreen, formvars, wearersList>>

\* HomeScreen unmounts (sign-out).  The effect returns nothing: the function
\* that setupRealtimeSubscription returns is dropped, so no cleanup runs and
\* the channel stays subscribed.
UnmountHomeScreen(u) ==
    /\ mounted["HomeScreen"] # 0
    /\ mounted' = [mounted EXCEPT !["HomeScreen"] = 0]
    /\ UNCHANGED <<dbvars, idvars, call, lastDelete, helpvars, wearerDetails,
                   authvars, caregiversScreen, formvars, mountCount, channels, events,
                   fetches, resolvedRequests, wearersList>>

\* WearersScreen mounts: useFocusEffect calls loadWearers, the effect
\* subscribes the three channels.
MountWearersScreen(u) ==
    /\ HasAccount(u)
    /\ mounted["WearersScreen"] = 0
    /\ mountCount["WearersScreen"] < MaxMounts
    /\ CanFetch
    /\ LET n == mountCount["WearersScreen"] + 1
       IN  /\ mounted' = [mounted EXCEPT !["WearersScreen"] = n]
           /\ mountCount' = [mountCount EXCEPT !["WearersScreen"] = n]
           /\ channels' = channels \cup WearersChannels(n)
           /\ events' = Subscribed(WearersChannels(n))
           /\ fetches' = fetches (+) SetToBag({NewFetch("WearersScreen", n)})
    /\ wearersList' = [wearersList EXCEPT ![u] = {}]
    /\ UNCHANGED <<dbvars, idvars, call, lastDelete, helpvars, wearerDetails,
                   authvars, caregiversScreen, formvars, resolvedRequests>>

\* WearersScreen unmounts: the cleanup of the effect removes the three
\* channels of the instance.
UnmountWearersScreen(u) ==
    /\ mounted["WearersScreen"] # 0
    /\ mounted' = [mounted EXCEPT !["WearersScreen"] = 0]
    /\ channels' = channels \ WearersChannels(mounted["WearersScreen"])
    /\ events' = [c \in channels' |-> events[c]]
    /\ UNCHANGED <<dbvars, idvars, call, lastDelete, helpvars, wearerDetails,
                   authvars, caregiversScreen, formvars, mountCount, fetches,
                   resolvedRequests, wearersList>>

\* A change event reaches the callback of channel c, which calls the
\* re-fetch of the screen instance that subscribed it.
DeliverEvent(c) ==
    /\ c \in channels
    /\ events[c] > 0
    /\ CanFetch
    /\ events' = [events EXCEPT ![c] = @ - 1]
    /\ fetches' = fetches (+) SetToBag({NewFetch(c.screen, c.instance)})
    /\ UNCHANGED <<dbvars, idvars, call, lastDelete, helpvars, wearerDetails,
                   authvars, caregiversScreen, formvars, mounted, mountCount, channels,
                   resolvedRequests, wearersList>>

\* The backend answers query q of the re-fetch f from the tables as they
\* are now.
Respond(u, f, q) ==
    /\ BagIn(f, fetches)
    /\ q \in DOMAIN f.responses
    /\ ~f.responses[q].done
    /\ fetches' =
          (fetches (-) SetToBag({f})) (+)
          SetToBag({[f EXCEPT !.responses[q] =
                        [done |-> TRUE, rows |-> QueryResult(q, u)]]})
    /\ UNCHANGED <<dbvars, idvars, call, lastDelete, helpvars, wearerDetails,
                   authvars, caregiversScreen, formvars, mounted, mountCount, channels,
                   events, resolvedRequests, wearersList>>

\* The component that issued f is the one mounted: its setters take effect.
Alive(f) == mounted[f.screen] = f.instance

\* All responses of the re-fetch f have arrived: the setters of the lists
\* run with the rows received.
LoadDone(u, f) ==
    /\ BagIn(f, fetches)
    /\ \A q \in DOMAIN f.responses : f.responses[q].done
    /\ fetches' = fetches (-) SetToBag({f})
    /\ IF Alive(f) /\ f.screen = "HomeScreen"
         THEN /\ activeRequests' = [activeRequests EXCEPT ![u] =
                    f.responses["getActiveHelpRequests"].rows]
              /\ resolvedRequests' = [resolvedRequests EXCEPT ![u] =
                    f.responses["getResolvedHelpRequests"].rows]
              /\ UNCHANGED wearersList
         ELSE IF Alive(f)
           THEN /\ wearersList' = [wearersList EXCEPT ![u] =
                      f.responses["getWearers"].rows]
                /\ UNCHANGED <<activeRequests, resolvedRequests>>
           ELSE UNCHANGED <<activeRequests, resolvedRequests, wearersList>>
    /\ UNCHANGED <<dbvars, idvars, call, lastDelete, now, detail, raced,
                   wearerDetails, authvars, caregiversScreen, formvars, mounted,
                   mountCount, channels, events>>

\* An alert is raised; the insert is published.
RaiseAlert(w) ==
    /\ CreateHelpRequest(w)
    /\ Publish
    /\ UNCHANGED <<helpvars, wearerDetails, authvars, caregiversScreen, formvars,
                   mounted, mountCount, channels, fetches, resolvedRequests,
                   wearersList>>

\* handleResolveAlert on the mounted dashboard; the update is published.
ResolveOnDashboard(u, h, status) ==
    /\ mounted["HomeScreen"] # 0
    /\ HandleResolveAlert(u, h, status)
    /\ Publish
    /\ UNCHANGED <<wearerDetails, authvars, caregiversScreen, formvars, mounted,
                   mountCount, channels, fetches, resolvedRequests,
                   wearersList>>

\* handleDeleteWearer on the mounted wearers screen for a wearer of its
\* list: deleteWearer, published, then loadWearers.
HandleDeleteWearer(u, w) ==
    /\ mounted["WearersScreen"] # 0
    /\ w \in wearersList[u]
    /\ CanFetch
    /\ DeleteWearer(u, w, TRUE)
    /\ Publish
    /\ fetches' = fetches (+)
          SetToBag({NewFetch("WearersScreen", mounted["WearersScreen"])})
    /\ UNCHANGED <<lastDelete, helpvars, wearerDetails, authvars,
                   caregiversScreen, formvars, mounted, mountCount, channels,
                   resolvedRequests, wearersList>>


\* The two screens of caregiver u1 mount and unmount; alerts of the wearer
\* and the deletion of the wearer change the tables the channels listen to.
NextSubs ==
    \/ MountHomeScreen("u1")
    \/ UnmountHomeScreen("u1")
    \/ MountWearersScreen("u1")
    \/ UnmountWearersScreen("u1")
    \/ \E c \in channels : DeliverEvent(c)
    \/ \E f \in BagToSet(fetches) : \E q \in DOMAIN f.responses :
          Respond("u1", f, q)
    \/ \E f \in BagToSet(fetches) : LoadDone("u1", f)
    \/ \E w \in WearerIds : RaiseAlert(w)
    \/ \E w \in WearerIds : HandleDeleteWearer("u1", w)

SpecSubs == InitHelp /\ [][NextSubs]_vars

(***************************************************************************)
(* Properties of the realtime subscriptions                                *)
(***************************************************************************)
\* C19: once a screen is torn down, each channel it subscribed is removed:
\* every live channel belongs to the mounted instance of its screen, and a
\* change event starts a re-fetch of a mounted instance only.
C19_TornDownScreenIsUnsubscribed ==
    [][/\ \A c \in channels' : mounted'[c.screen] = c.instance
       /\ \A c \in channels :
             DeliverEvent(c) => mounted[c.screen] = c.instance]_vars

(***************************************************************************)
(* Convergence of the dashboard lists                                      *)
(***************************************************************************)
\* The dashboard of caregiver u1 stays mounted; alerts are raised and u1
\* resolves alerts of the Active list.
NextRefetch ==
    \/ MountHomeScreen("u1")
    \/ \E c \in channels : DeliverEvent(c)
    \/ \E f \in BagToSet(fetches) : \E q \in DOMAIN f.responses :
          Respond("u1", f, q)
    \/ \E f \in BagToSet(fetches) : LoadDone("u1", f)
    \/ \E w \in WearerIds : RaiseAlert(w)
    \/ \E h \in HelpRequestIds, status \in Terminal :
          ResolveOnDashboard("u1", h, status)

SpecRefetch == InitHelp /\ [][NextRefetch]_vars

\* Every queued change event is delivered, every query is answered and
\* every answered re-fetch runs its setters.
SpecRefetchFair ==
    /\ SpecRefetch
    /\ WF_vars(\E c \in channels : DeliverEvent(c))
    /\ WF_vars(\E f \in BagToSet(fetches) : \E q \in DOMAIN f.responses :
                  Respond("u1", f, q))
    /\ WF_vars(\E f \in BagToSet(fetches) : LoadDone("u1", f))

\* The dashboard is mounted, no change event is pending and no re-fetch is
\* in flight.
Settled ==
    /\ mounted["HomeScreen"] # 0
    /\ \A c \in channels : events[c] = 0
    /\ fetches = EmptyBag

\* The lists of the dashboard of u1 are the ones the backend holds.
Converged ==
    /\ activeRequests["u1"] = getActiveHelpRequests(safeloop_account_id("u1"))
    /\ resolvedRequests["u1"] =
          getResolvedHelpRequests(safeloop_account_id("u1"))

\* C20: under fairness, from some point on, whenever no change event is
\* pending and no re-fetch is in flight, the Active and History lists of
\* the dashboard equal the backend's current state.
C20_ListsConvergeAfterQuiescence == <>[](Settled => Converged)

(***************************************************************************)
(* The register-wearer form (RegisterWearerScreen)                         *)
(***************************************************************************)
Digits == {"0", "1", "2", "3", "4", "5", "6", "7", "8", "9"}

DigitValue(c) ==
    CASE c = "0" -> 0 [] c = "1" -> 1 [] c = "2" -> 2 [] c = "3" -> 3
      [] c = "4" -> 4 [] c = "5" -> 5 [] c = "6" -> 6 [] c = "7" -> 7
      [] c = "8" -> 8 [] OTHER -> 9

\* input.replace(/\D/g, ''): the digits of the text, in order
RECURSIVE OnlyDigits(_)
OnlyDigits(s) ==
    IF s = <<>> THEN <<>>
    ELSE IF Head(s) \in Digits THEN <<Head(s)>> \o OnlyDigits(Tail(s))
    ELSE OnlyDigits(Tail(s))

\* formatDeviceCode: the first seven digits of the text typed
formatDeviceCode(input) ==
    LET digits == OnlyDigits(input)
    IN  IF Len(digits) > 7 THEN SubSeq(digits, 1, 7) ELSE digits

\* /^\d{7}$/
MatchesSevenDigits(s) == Len(s) = 7 /\ \A k \in 1..7 : s[k] \in Digits

\* /^\d{4}-\d{2}-\d{2}$/
MatchesDatePattern(s) ==
    /\ Len(s) = 10
    /\ \A k \in {1, 2, 3, 4, 6, 7, 9, 10} : s[k] \in Digits
    /\ s[5] = "-"
    /\ s[8] = "-"

\* The numbers of a text that matches the date pattern.
DateFields(s) ==
    [y |-> 1000 * DigitValue(s[1]) + 100 * DigitValue(s[2])
           + 10 * DigitValue(s[3]) + DigitValue(s[4]),
     m |-> 10 * DigitValue(s[6]) + DigitValue(s[7]),
     d |-> 10 * DigitValue(s[9]) + DigitValue(s[10])]

IsLeapYear(y) == (y % 4 = 0 /\ y % 100 # 0) \/ y % 400 = 0

DaysInMonth(y, m) ==
    CASE m \in {4, 6, 9, 11} -> 30
      [] m = 2 -> IF IsLeapYear(y) THEN 29 ELSE 28
      [] OTHER -> 31

\* A day of the calendar.
IsCalendarDate(f) ==
    /\ f.m \in 1..12
    /\ f.d \in 1..DaysInMonth(f.y, f.m)

\* The day that follows the last day of the month of f by f.d minus the
\* length of the month: what a day number past the end of the month makes.
RolledOver(f) ==
    LET over == f.d - DaysInMonth(f.y, f.m)
    IN  IF f.m = 12 THEN [y |-> f.y + 1, m |-> 1, d |-> over]
        ELSE [y |-> f.y, m |-> f.m + 1, d |-> over]

\* No date ("Invalid Date")
InvalidDate == [y |-> 0, m |-> 0, d |-> 0]

\* new Date(dateString) for a text that matches the date pattern.  A month
\* outside 01..12 or a day outside 01..31 gives Invalid Date.  A day within
\* 01..31 past the end of the month is Invalid Date on engines that check
\* the day against the month and the rolled-over day on engines that do
\* not (rolls).
NewDate(s, rolls) ==
    LET f == DateFields(s)
    IN  IF f.m \notin 1..12 \/ f.d \notin 1..31 THEN InvalidDate
        ELSE IF IsCalendarDate(f) THEN f
        ELSE IF rolls THEN RolledOver(f)
        ELSE InvalidDate

\* The day of new Date() (UTC): date <= new Date() compares the midnight
\* (UTC) of the date with the present instant.
Today == [y |-> 2025, m |-> 6, d |-> 15]

NotAfter(f, g) ==
    \/ f.y < g.y
    \/ f.y = g.y /\ f.m < g.m
    \/ f.y = g.y /\ f.m = g.m /\ f.d <= g.d

\* isValidDate
isValidDate(dateString, rolls) ==
    /\ MatchesDatePattern(dateString)
    /\ NewDate(dateString, rolls) # InvalidDate
    /\ NotAfter(NewDate(dateString, rolls), Today)

\* The texts typed into the fields of the form.
NameInputs == {<<>>, <<" ">>, <<"A">>}
CodeInputs ==
    {<<>>, <<" ">>,
     <<"1", "2", "3", "4", "5", "6", "7">>,
     <<"1", "2", "3", "4", "5", "6">>,
     <<"1", "2", "3", "4", "5", "6", "7", "8">>,
     <<"1", "2", "3", "a", "5", "6", "7">>}
DateInputs ==
    {<<>>,
     <<"2", "0", "2", "4", "-", "0", "2", "-", "2", "9">>,
     <<"2", "0", "2", "3", "-", "0", "2", "-", "3", "0">>,
     <<"2", "0", "2", "4", "-", "1", "3", "-", "0", "1">>,
     <<"2", "0", "2", "4", "-", "0", "1", "-", "3", "2">>,
     <<"2", "0", "2", "5", "-", "0", "6", "-", "1", "5">>,
     <<"2", "0", "2", "5", "-", "0", "6", "-", "1", "6">>,
     <<"2", "0", "2", "4", "-", "1", "-", "5">>,
     <<"0", "2", "/", "2", "9", "/", "2", "0", "2", "4">>}

\* onChangeText of the name field
SetName(text) ==
    /\ registerForm.name # text
    /\ registerForm' = [registerForm EXCEPT !.name = text]
    /\ UNCHANGED <<dbvars, idvars, call, lastDelete, helpvars, wearerDetails,
                   authvars, caregiversScreen, realtimevars, detailAlert,
                   history>>

\* onChangeText of the date field
SetDateOfBirth(text) ==
    /\ registerForm.date_of_birth # text
    /\ registerForm' = [registerForm EXCEPT !.date_of_birth = text]
    /\ UNCHANGED <<dbvars, idvars, call, lastDelete, helpvars, wearerDetails,
                   authvars, caregiversScreen, realtimevars, detailAlert,
                   history>>

\* onChangeText of the code field: formatDeviceCode
SetDeviceCode(text) ==
    /\ registerForm.seven_digit_code # formatDeviceCode(text)
    /\ registerForm' =
          [registerForm EXCEPT !.seven_digit_code = formatDeviceCode(text)]
    /\ UNCHANGED <<dbvars, idvars, call, lastDelete, helpvars, wearerDetails,
                   authvars, caregiversScreen, realtimevars, detailAlert,
                   history>>

\* The alert of the first check of handleSave that the form fails, or ""
\* when createWearer is called.
ValidationAlert(u, form, rolls) ==
    IF trim(form.name) = <<>>
      THEN "Please enter the wearer's name"
    ELSE IF trim(form.seven_digit_code) = <<>>
      THEN "Please enter the 7-digit device code"
    ELSE IF Len(form.seven_digit_code) # 7
      THEN "Device code must be exactly 7 digits"
    ELSE IF ~MatchesSevenDigits(form.seven_digit_code)
      THEN "Device code must contain only numbers"
    ELSE IF form.date_of_birth # <<>>
            /\ ~isValidDate(form.date_of_birth, rolls)
      THEN "Please enter a valid date (YYYY-MM-DD)"
    ELSE IF u \notin DOMAIN users
      THEN "User profile not found. Please try refreshing the app."
    ELSE ""

\* RegisterWearerScreen.handleSave up to the call of createWearer: called
\* records that the call was issued with the formData.
HandleSaveWearer(u, rolls) ==
    /\ registerForm' =
          [registerForm EXCEPT
              !.alert = ValidationAlert(u, registerForm, rolls),
              !.called = (ValidationAlert(u, registerForm, rolls) = "")]
    /\ UNCHANGED <<dbvars, idvars, call, lastDelete, helpvars, wearerDetails,
                   authvars, caregiversScreen, realtimevars, detailAlert,
                   history>>

\* The form of the admin u1: the fields are edited and the form is saved.
NextForm ==
    \/ \E text \in NameInputs : SetName(text)
    \/ \E text \in DateInputs : SetDateOfBirth(text)
    \/ \E text \in CodeInputs : SetDeviceCode(text)
    \/ \E rolls \in BOOLEAN : HandleSaveWearer("u1", rolls)

SpecForm == Init /\ [][NextForm]_vars

\* The form may be submitted: a name that is not blank, a code of seven
\* digits, and no date of birth or a day of the calendar not after today.
Submittable(form) ==
    /\ trim(form.name) # <<>>
    /\ MatchesSevenDigits(form.seven_digit_code)
    /\ \/ form.date_of_birth = <<>>
       \/ /\ MatchesDatePattern(form.date_of_birth)
          /\ IsCalendarDate(DateFields(form.date_of_birth))
          /\ NotAfter(DateFields(form.date_of_birth), Today)

\* C21: handleSave calls createWearer only for a form with a name that is
\* not blank, a code of seven digits and a date of birth that is empty or a
\* valid date not in the future.
C21_CreateWearerOnlyForValidForm ==
    [][\A rolls \in BOOLEAN :
          (HandleSaveWearer("u1", rolls) /\ registerForm'.called)
          => Submittable(registerForm)]_vars

(***************************************************************************)
(* The detail of a help request: not found and other failures              *)
(***************************************************************************)
\* The rows of the select of getHelpRequestDetails: the request with the
\* id, joined with its wearer (wearers!inner).
DetailRows(h) ==
    {x \in DOMAIN help_requests :
        x = h /\ help_requests[x].wearer_id \in DOMAIN wearers}

\* The response of the backend to the select with .single(): the row, the
\* no-rows error PGRST116 unless exactly one row matches, or another error
\* when the request fails.
DetailResponse(h, fails) ==
    IF fails THEN [data |-> NULL, error |-> "500"]
    ELSE IF Cardinality(DetailRows(h)) = 1
      THEN [data |-> h, error |-> ""]
    ELSE [data |-> NULL, error |-> "PGRST116"]

getHelpRequestDetails_NullOnAnyError(response) ==
    IF response.error = "" THEN [thrown |-> FALSE, value |-> response.data]
    ELSE [thrown |-> FALSE, value |-> NULL]

\* userService.getHelpRequestDetails: null for PGRST116, throw for every
\* other error, the row otherwise.
getHelpRequestDetails(response) ==
    IF response.error # ""
      THEN IF response.error = "PGRST116"
             THEN [thrown |-> FALSE, value |-> NULL]
             ELSE [thrown |-> TRUE, value |-> NULL]
      ELSE [thrown |-> FALSE, value |-> response.data]

\* HelpRequestDetailScreen opened for the id h (from the dashboard or from a
\* notification): loadHelpRequest.  The request is shown; or 'not found' is
\* alerted and the screen goes back; or the failure is alerted and the
\* screen stays, showing nothing.
LoadHelpRequest(u, h, fails) ==
    /\ detail[u].id = NULL
    /\ LET result == getHelpRequestDetails(DetailResponse(h, fails))
       IN  IF result.thrown
             THEN /\ detailAlert' = [detailAlert EXCEPT ![u] =
                        "Failed to load help request details"]
                  /\ UNCHANGED detail
           ELSE IF result.value # NULL
             THEN /\ detail' = [detail EXCEPT ![u] =
                        Loaded(help_requests, result.value)]
                  /\ detailAlert' = [detailAlert EXCEPT ![u] = ""]
           ELSE /\ detailAlert' = [detailAlert EXCEPT ![u] =
                      "Help request not found"]
                /\ UNCHANGED detail
    /\ UNCHANGED <<dbvars, idvars, call, lastDelete, now, activeRequests,
                   raced, wearerDetails, authvars, caregiversScreen,
                   realtimevars, registerForm, history>>

\* Help requests are raised and the wearer is removed while the caregivers
\* u1 and u2 open detail screens, for ids with and without a request.
NextDetail ==
    \/ \E w \in WearerIds : CreateHelpRequest(w) /\ UNCHANGED <<helpvars, screenvars>>
    \/ \E w \in WearerIds :
          DeleteWearer("u1", w, TRUE) /\ UNCHANGED <<lastDelete, helpvars, screenvars>>
    \/ \E u \in {"u1", "u2"}, h \in HelpRequestIds, fails \in BOOLEAN :
          LoadHelpRequest(u, h, fails)
    \/ \E u \in {"u1", "u2"} : \E n \in NotesOf(u) :
          SetNotes(u, n) /\ UNCHANGED screenvars
    \/ \E u \in {"u1", "u2"} : HandleSaveNotes(u) /\ UNCHANGED screenvars
    \/ \E u \in {"u1", "u2"} : CloseDetail(u) /\ UNCHANGED screenvars

SpecDetail == InitHelp /\ [][NextDetail]_vars

\* C22: loadHelpRequest shows the request when it exists and the backend
\* answers, alerts 'Help request not found' and shows nothing exactly when
\* the backend answers that no row has the id, and alerts the failure, not
\* 'not found', when the backend fails.
C22_NotFoundIsNotAFailure ==
    [][\A u \in Users, h \in HelpRequestIds, fails \in BOOLEAN :
          LoadHelpRequest(u, h, fails)
          => /\ (~fails /\ h \in DOMAIN help_requests)
                   => /\ detail'[u] = Loaded(help_requests, h)
                      /\ detailAlert'[u] = ""
             /\ (~fails /\ h \notin DOMAIN help_requests)
                   => /\ detail'[u] = NoDetail
                      /\ detailAlert'[u] = "Help request not found"
             /\ fails
                   => /\ detail'[u] = NoDetail
                      /\ detailAlert'[u] =
                            "Failed to load help request details"]_vars

C22_Witness ==
    /\ detailAlert["u1"] = "Help request not found"
    /\ detailAlert["u2"] = "Failed to load help request details"
    /\ help_requests # <<>>

(***************************************************************************)
(* The life of help requests under the operations of the application       *)
(***************************************************************************)
\* The alert producer raises requests; caregiver u1 uses the dashboard and
\* the detail screen, and the wearer is deleted.
NextRequests ==
    \/ \E w \in WearerIds : CreateHelpRequest(w) /\ UNCHANGED <<helpvars, screenvars>>
    \/ LoadHelpRequests("u1") /\ UNCHANGED screenvars
    \/ \E h \in HelpRequestIds, status \in Terminal :
          HandleResolveAlert("u1", h, status) /\ UNCHANGED screenvars
    \/ \E h \in HelpRequestIds : OpenDetail("u1", h) /\ UNCHANGED screenvars
    \/ \E n \in NotesOf("u1") : SetNotes("u1", n) /\ UNCHANGED screenvars
    \/ HandleSaveNotes("u1") /\ UNCHANGED screenvars
    \/ \E status \in Terminal : HandleResolve("u1", status) /\ UNCHANGED screenvars
    \/ CloseDetail("u1") /\ UNCHANGED screenvars
    \/ Deletions /\ UNCHANGED <<lastDelete, helpvars, screenvars>>

SpecRequests == InitHelp /\ [][NextRequests]_vars

\* C23: a step of the application (any step but the alert producer's)
\* inserts no help request: the ids stay or shrink, they shrink only with a
\* wearer that is deleted, and no request changes its wearer.
C23_ApplicationInsertsNoHelpRequest ==
    [][~(\E w \in WearerIds : CreateHelpRequest(w))
       => /\ DOMAIN help_requests' \subseteq DOMAIN help_requests
          /\ DOMAIN help_requests' # DOMAIN help_requests
                => DOMAIN wearers' # DOMAIN wearers
          /\ \A h \in DOMAIN help_requests' :
                help_requests'[h].wearer_id = help_requests[h].wearer_id]_vars

\* A request was saved with notes by u1 while its wearer was deleted, and
\* is gone.
C23_Witness ==
    /\ nextHelpRequestId > 1
    /\ help_requests = <<>>
    /\ wearers = <<>>
    /\ detail["u1"].id # NULL
    /\ now > 2

\* The fields of a help request that no update of the application names.
SameWearer(r1, r2) == r1.wearer_id = r2.wearer_id

\* C24: updateHelpRequestStatus changes the request with the id only, and
\* of it the status, and: for responded_to the responder and the time of
\* the response; for resolved and false_alarm the time of the resolution,
\* keeping responder and response time; the notes only when a note that is
\* not empty is passed.  Resolving from the dashboard keeps the notes.
C24_UpdateChangesOnlyItsFields ==
    [][/\ \A h \in HelpRequestIds, u \in Users, notes \in {"", "n1", "n2"},
             status \in {"responded_to"} \cup Terminal :
             updateHelpRequestStatus(h, status, u, notes)
             => /\ DOMAIN help_requests' = DOMAIN help_requests
                /\ \A x \in DOMAIN help_requests :
                      x # h => help_requests'[x] = help_requests[x]
                /\ h \in DOMAIN help_requests
                      => LET old == help_requests[h]
                             new == help_requests'[h]
                         IN  /\ new.event_status = status
                             /\ SameWearer(old, new)
                             /\ new.notes = IF notes = "" THEN old.notes
                                            ELSE notes
                             /\ status = "responded_to"
                                   => /\ new.responded_by = u
                                      /\ new.responded_at = now
                                      /\ new.resolved_at = old.resolved_at
                             /\ status \in Terminal
                                   => /\ new.resolved_at = now
                                      /\ new.responded_by = old.responded_by
                                      /\ new.responded_at = old.responded_at
                /\ UNCHANGED <<wearers, devices, caregiver_wearer_assignments,
                               wearer_settings>>
       /\ \A h \in HelpRequestIds, status \in Terminal :
             (HandleResolveAlert("u1", h, status) /\ h \in DOMAIN help_requests)
             => help_requests'[h].notes = help_requests[h].notes]_vars

\* A request that u1 answered with a note and then closed from the
\* dashboard.
C24_Witness ==
    \E h \in DOMAIN help_requests :
        /\ help_requests[h].event_status \in Terminal
        /\ help_requests[h].notes = "n1"
        /\ help_requests[h].responded_by = "u1"
        /\ help_requests[h].responded_at > 0
        /\ help_requests[h].resolved_at > help_requests[h].responded_at
        /\ detail["u1"].id = NULL

(***************************************************************************)
(* The History list: getResolvedHelpRequests with order and limit          *)
(***************************************************************************)
\* limit: number = 50
DefaultLimit == 50

\* A help request of wearer w with a status and the time of its resolution.
HistoryRow(w, status, at) ==
    [wearer_id |-> w, event_status |-> status, notes |-> "",
     responded_by |-> "", responded_at |-> 0, resolved_at |-> at]

\* The help requests of the tables that the history is read from: open
\* ones, and closed ones with the time of their resolution.
HistoryRows ==
    {HistoryRow(1, "active", 0), HistoryRow(1, "responded_to", 0),
     HistoryRow(1, "resolved", 1), HistoryRow(1, "resolved", 2),
     HistoryRow(1, "false_alarm", 1), HistoryRow(1, "false_alarm", 3),
     HistoryRow(2, "resolved", 2)}

\* A wearer of account a1 and one of account a2, and up to MaxHistory help
\* requests of them.
InitHistory ==
    /\ InitViews
    /\ wearers = <<[safeloop_account_id |-> "a1"],
                   [safeloop_account_id |-> "a2"]>>
    /\ devices = <<NewDevice("1234567", 1), NewDevice("7654321", 2)>>
    /\ caregiver_wearer_assignments = <<>>
    /\ help_requests \in UNION {[1..n -> HistoryRows] : n \in 0..MaxHistory}
    /\ wearer_settings = {}
    /\ nextWearerId = 3
    /\ nextDeviceId = 3
    /\ nextHelpRequestId = Len(help_requests) + 1
    /\ nextAssignmentId = 1
    /\ call = [u \in Users |-> Idle]
    /\ lastDelete = NoDelete
    /\ InitAuthWith({<<"A">>})

\* The sequences that list every element of S once.
Orderings(S) ==
    {s \in [1..Cardinality(S) -> S] :
        \A i, j \in 1..Cardinality(S) : i # j => s[i] # s[j]}

Sorted_Ascending(s) ==
    \A i, j \in 1..Len(s) :
        i < j => help_requests[s[i]].resolved_at <= help_requests[s[j]].resolved_at

\* .order('resolved_at', { ascending: false })
Sorted(s) ==
    \A i, j \in 1..Len(s) :
        i < j => help_requests[s[i]].resolved_at >= help_requests[s[j]].resolved_at

\* .limit(limit)
Limited(s, limit) == IF Len(s) > limit THEN SubSeq(s, 1, limit) ELSE s

\* The results that getResolvedHelpRequests(account, limit) can return: the
\* matching requests in an order that the sort allows (rows of the same
\* resolution time come in any order), cut at the limit.
ResolvedResults(account, limit) ==
    {Limited(s, limit) :
        s \in {o \in Orderings(getResolvedHelpRequests(account)) : Sorted(o)}}

\* A call of getResolvedHelpRequests for the account of u with a limit.
LoadHistory(u, limit, rows) ==
    /\ HasAccount(u)
    /\ rows \in ResolvedResults(safeloop_account_id(u), limit)
    /\ history' = [limit |-> limit, rows |-> rows]
    /\ UNCHANGED <<dbvars, idvars, call, lastDelete, helpvars, wearerDetails,
                   authvars, caregiversScreen, realtimevars, registerForm,
                   detailAlert>>

\* loadHelpRequests of HomeScreen calls it without a limit.
LoadHistoryDefault(u, rows) == LoadHistory(u, DefaultLimit, rows)

\* The results of the calls for u1, for every result the backend may give.
NextHistory ==
    \/ \E limit \in 1..MaxHistory :
          \E rows \in ResolvedResults(safeloop_account_id("u1"), limit) :
             LoadHistory("u1", limit, rows)
    \/ \E rows \in ResolvedResults(safeloop_account_id("u1"), DefaultLimit) :
          LoadHistoryDefault("u1", rows)

SpecHistory == InitHistory /\ [][NextHistory]_vars

\* The result of a call with the limit is right for the tables.
RightHistory(account, limit, rows) ==
    LET matching == {h \in DOMAIN help_requests :
                        /\ help_requests[h].event_status \in
                              {"resolved", "false_alarm"}
                        /\ wearers[help_requests[h].wearer_id].safeloop_account_id
                              = account}
        at(h) == help_requests[h].resolved_at
    IN  /\ \A k \in 1..Len(rows) : rows[k] \in matching
        /\ \A i, j \in 1..Len(rows) : i < j =>
              /\ rows[i] # rows[j]
              /\ at(rows[i]) >= at(rows[j])
        /\ Len(rows) <= limit
        /\ Len(rows) = IF Cardinality(matching) > limit THEN limit
                       ELSE Cardinality(matching)
        /\ \A h \in matching :
              (\A k \in 1..Len(rows) : rows[k] # h)
              => \A k \in 1..Len(rows) : at(rows[k]) >= at(h)

\* C25: getResolvedHelpRequests(account, limit) returns requests that are
\* resolved or false_alarm and of a wearer of the account only, in
\* non-increasing order of resolution time, at most limit of them (50 when
\* the limit is omitted), and the most recently resolved ones when there are
\* more.
C25_HistoryIsSortedAndLimited ==
    [][history' # history
       => /\ RightHistory(safeloop_account_id("u1"), history'.limit,
                          history'.rows)
          /\ history'.limit \in 1..MaxHistory \cup {50}]_vars

\* A call with limit 1 while two requests of the account were closed at
\* different times, and one of the other account.
C25_Witness ==
    /\ history.limit = 1
    /\ Len(history.rows) = 1
    /\ \E h1, h2, h3 \in DOMAIN help_requests :
          /\ h1 \in getResolvedHelpRequests("a1")
          /\ h2 \in getResolvedHelpRequests("a1")
          /\ help_requests[h1].resolved_at > help_requests[h2].resolved_at
          /\ history.rows[1] = h1
          /\ help_requests[h3].event_status \in Terminal
          /\ ~InAccount(h3, "a1")

\* A help request of the account of u that is not closed.
OpenRequest(h, u) ==
    /\ h \in DOMAIN help_requests
    /\ help_requests[h].event_status \in {"active", "responded_to"}
    /\ InAccount(h, safeloop_account_id(u))

\* C26: after a re-fetch of the dashboard, every help request of the
\* account that is not closed is in the Active list (or, at least, in the
\* History list): recording notes does not make it disappear from both.
C26_OpenRequestsStayListed ==
    [][LoadHelpRequests("u1")
       => \A h \in HelpRequestIds :
             OpenRequest(h, "u1")'
             => \/ h \in activeRequests'["u1"]
                \/ h \in getResolvedHelpRequests(safeloop_account_id("u1"))']_vars

(***************************************************************************)
(* Properties of the auth context under sign-out and concurrent lookups    *)
(***************************************************************************)
\* C27: without a session the auth context holds no profile, no invitation
\* and needs no profile setup, also when a lookup started for the previous
\* session is answered after the sign-out.
C27_SignedOutContextIsEmpty ==
    \A i \in Users :
        ~auth[i].session
        => /\ auth[i].userProfile = NoProfile
           /\ auth[i].invitationInfo = NoInvitation
           /\ ~auth[i].needsProfileSetup

(***************************************************************************)
(* Application start: getSession() beside the auth-state listener          *)
(***************************************************************************)
\* The then-callback of supabase.auth.getSession() in the mount effect of
\* AuthProvider: setSession and setLoading(false); with a stored session
\* loadUserProfile starts, without one setProfileLoading(false).  The promise
\* is answered once, whatever the auth-state listener has done before.
GetSessionResult(i, stored) ==
    /\ loads[i].getSession
    /\ stored \/ ~auth[i].session
    /\ auth' = [auth EXCEPT ![i] =
          IF stored
            THEN [@ EXCEPT !.session = TRUE,
                           !.signedInAt = IF auth[i].session THEN @
                                          ELSE now,
                           !.profileLoading = TRUE]
          ELSE [@ EXCEPT !.session = FALSE, !.profileLoading = FALSE]]
    /\ loads' = [loads EXCEPT ![i].getSession = FALSE,
                              ![i].getUserProfile =
                                  IF stored THEN @ + 1 ELSE @]
    /\ UnchangedByAuth
    /\ UNCHANGED <<now, users, caregiver_invitations, nextInvitationId>>

NextStartup ==
    \/ \E i \in {"u2", "u3"}, stored \in BOOLEAN : GetSessionResult(i, stored)
          /\ UNCHANGED <<realtimevars, formvars>>
    \/ \E i \in {"u2", "u3"} : SignIn(i)
          /\ UNCHANGED <<realtimevars, formvars>>
    \/ \E i \in {"u2", "u3"} : AuthStateChange(i)
          /\ UNCHANGED <<realtimevars, formvars>>
    \/ SignOut("u3")
          /\ UNCHANGED <<realtimevars, formvars>>
    \/ \E i \in {"u2", "u3"}, ok \in BOOLEAN : GetUserProfileResponse(i, ok)
          /\ UNCHANGED <<realtimevars, formvars>>
    \/ \E i \in {"u2", "u3"}, ok \in BOOLEAN : CheckInvitationResponse(i, ok)
          /\ UNCHANGED <<realtimevars, formvars>>
    \/ HandleSendInvitation("u1", "u3")
          /\ UNCHANGED <<realtimevars, formvars>>

SpecStartup == InitSignIn /\ [][NextStartup]_vars

\* C28: on a device with a session, profileLoading is true as long as a
\* lookup of loadUserProfile (the profile query or the invitation query) is
\* in flight, so the navigator shows its loading view and mounts neither
\* ProfileSetup nor the main screens.
C28_LoadingWhileLookupInFlight ==
    \A i \in Users :
        auth[i].session /\ LoadsInFlight(i) > 0 => auth[i].profileLoading

\* C29: the submit of onboarding issues create_safeloop_account only for an
\* identity that has no profile row and no pending, unexpired invitation for
\* its email, whatever the lookups of loadUserProfile answered before.
C29_NoProvisioningBesideProfileOrInvitation ==
    [][\A i \in Users :
          (/\ \E ok \in BOOLEAN : HandleSave(i, <<"B">>, ok)
           /\ auth'[i].issued = "create_safeloop_account")
          => /\ i \notin DOMAIN users
             /\ OpenInvitations(i) = {}]_vars

\* C30: a createWearer call that has thrown has left nothing behind: the
\* wearer it inserted, if any, is gone, and no device row is bound to it.
C30_ThrownCallLeavesNothing ==
    \A u \in Users :
        (call[u].pc = "thrown" /\ call[u].wearer # NULL)
        => /\ call[u].wearer \notin DOMAIN wearers
           /\ \A d \in DOMAIN devices : devices[d].wearer_id # call[u].wearer

====
